---- MODULE Spec2Model ----
(***************************************************************************)
(* Traffic accounting of althea_rs: the client and the exit TrafficWatcher *)
(* actors of rita (rita_client/traffic_watcher, rita_exit/traffic_watcher),*)
(* the HTTPClient actor (rita_common/http_client) and the default-route    *)
(* functions of the KernelInterface (althea_kernel_interface/ip_route).    *)
(*                                                                         *)
(* One behaviour follows one of them, which share no state: `role` is      *)
(* "client", "exit", "hello" or "kernel".  A Watch message is handled in   *)
(* one step, as the                                                        *)
(* actor handles it: everything the handler reads from outside (the        *)
(* routing daemon, the kernel's WireGuard counters, the settings, the HTTP *)
(* probe) is an input of the step.  `round` records what the latest round  *)
(* read and did, `debt_keeper` the TrafficUpdate messages it sent.         *)
(***************************************************************************)
EXTENDS Integers, Sequences, FiniteSets, TLC

VARIABLES
    role,              \* "client" | "exit": which binary runs
    running,           \* FALSE once a handler panicked
    last_read_input,   \* client TrafficWatcher.last_read_input
    last_read_output,  \* client TrafficWatcher.last_read_output
    last_seen_bytes,   \* exit TrafficWatcher.last_seen_bytes: wg key -> WgUsage
    debt_keeper,       \* TrafficUpdate messages sent by the latest round, in order
    round,             \* the latest round: its inputs, its locals, its result
    hello,             \* HTTPClient: the Hello invocations, each with its position
    tunnel_manager,    \* the callbacks sent to the TunnelManager, in order
    kernel,            \* KernelInterface: the latest call, what it read and returned
    settings_default_route, \* the saved default route (settings_default_route)
    route_call,        \* KernelInterface: the latest call on the saved route
    serde,             \* althea_types: the latest value written as JSON and read back
    ledger             \* history variable: what earlier rounds leave for later rounds to be compared with

vars == <<role, running, last_read_input, last_read_output, last_seen_bytes,
          debt_keeper, round, hello, tunnel_manager, kernel,
          settings_default_route, route_call,
          serde,
          ledger>>

\* what the traffic watchers leave alone
others == <<hello, tunnel_manager, kernel,
           settings_default_route, route_call,
           serde,
           ledger>>

---------------------------------------------------------------------------
(* Bounds.  TLC's integers are 32 bits wide, so the model's u64 is        *)
(* WordBits wide: a u64 product wraps at 2^WordBits.                      *)

WordBits == 16
MaxRoutes == 2
MaxClients == 2

U64Modulus == 2 ^ WordBits

\* the lists of at most n distinct elements of S
BoundedSeq(S, n) ==
    { s \in UNION { [1..k -> S] : k \in 0..n } :
        \A i, j \in DOMAIN s : i # j => s[i] # s[j] }

EmptyMap == [x \in {} |-> x]

\* HashMap::insert: the later insertion of a key replaces the earlier
MapInsert(m, k, v) == [x \in DOMAIN m \cup {k} |-> IF x = k THEN v ELSE m[x]]

---------------------------------------------------------------------------
(* Data *)

\* Option
None == [some |-> FALSE]

Some(x) == [some |-> TRUE, value |-> x]

Keys == {"K1", "K2"}

WgUsage(d, u) == [download |-> d, upload |-> u]

Identity(ip, eth, key) == [mesh_ip |-> ip, eth_address |-> eth, wg_public_key |-> key]

Route(family, ip, len, installed, price) ==
    [prefix |-> [family |-> family, ip |-> ip, prefix |-> len],
     installed |-> installed, price |-> price]

\* The routes the routing daemon may report: an installed IPv6 host route to
\* each of two mesh addresses (the daemon installs at most one route per
\* prefix), and one route for each way of not being billable.
RouteUniverse ==
    { Route("V6", "ipA", 128, TRUE, 7), Route("V6", "ipB", 128, TRUE, 2),
      Route("V6", "ipA", 128, FALSE, 7), Route("V6", "ipA", 64, TRUE, 7),
      Route("V4", "10.0.0.1", 32, TRUE, 7) }

RouteLists == BoundedSeq(RouteUniverse, MaxRoutes)

\* read_wg_counters: a map from the keys of the peers present to their usage
CounterMaps(U1, U2) ==
    { [k \in D |-> IF k = "K1" THEN c[1] ELSE c[2]] : D \in SUBSET Keys, c \in U1 \X U2 }

---------------------------------------------------------------------------
(* u64 arithmetic: a product that does not fit panics when the build has   *)
(* overflow checks (debug) and wraps when it has none (release).           *)

OverflowsU64(x) == x >= U64Modulus

WrapU64(x) == x % U64Modulus

---------------------------------------------------------------------------
(* Client TrafficWatcher *)

ClientHistory(i, o) == [last_read_input |-> i, last_read_output |-> o]

\* Mutation: a route counts whether or not it is installed
BillableRouteNotInstalled(route) ==
    /\ route.prefix.family = "V6"
    /\ route.prefix.prefix = 128

\* Only ip6, only host addresses and installed routes
BillableRoute(route) ==
    /\ route.prefix.family = "V6"
    /\ route.prefix.prefix = 128
    /\ route.installed

RECURSIVE ClientDestinations(_)
ClientDestinations(routes) ==
    IF routes = <<>> THEN EmptyMap
    ELSE LET n == Len(routes)
             before == ClientDestinations(SubSeq(routes, 1, n - 1))
             route == routes[n]
         IN  IF BillableRoute(route)
             THEN MapInsert(before, route.prefix.ip, route)
             ELSE before

\* Mutation: each axis is reset on its own, as the exit watcher does
ClientResetGuardPerAxis(history, counter) ==
    ClientHistory(
        IF history.last_read_input > counter.download THEN 0 ELSE history.last_read_input,
        IF history.last_read_output > counter.upload THEN 0 ELSE history.last_read_output)

\* bandwidth usage should always increase; if it doesn't, both are reset
ClientResetGuard(history, counter) ==
    IF \/ history.last_read_input > counter.download
       \/ history.last_read_output > counter.upload
    THEN ClientHistory(0, 0)
    ELSE history

ClientCommit(counter) == ClientHistory(counter.download, counter.upload)

\* owes += Int256::from(exit_price * output) + exit_dest_price * input
\* the first product is taken in u64, the second in Int256
ClientOwes(exit_price, route_price, input, output) ==
    WrapU64(exit_price * output) + (route_price + exit_price) * input

ClientOutcome(history, stage, result, sent, input, output) ==
    [history |-> history, stage |-> stage, result |-> result, sent |-> sent,
     input |-> input, output |-> output]

\* Mutation: an early return that also forgets the usage read so far
ClientAbortClearing(history, stage) ==
    ClientOutcome(ClientHistory(0, 0), stage, "err", <<>>, 0, 0)

\* an early return with Err: nothing is sent and the history is as it was
ClientAbort(history, stage) == ClientOutcome(history, stage, "err", <<>>, 0, 0)

\* watch(history, babel, exit, exit_price), after the TCP connect of handle()
ClientWatchResult(history, in) ==
    IF in.babel # "ok"
    THEN ClientAbort(history, in.babel)
    ELSE IF ~in.wg_ok
    THEN ClientAbort(history, "read_wg_counters_failed")
    ELSE IF DOMAIN in.counters = {}
    THEN ClientAbort(history, "no_peer")
    ELSE LET counter == in.counters[in.last_key]
             reset == ClientResetGuard(history, counter)
             input == counter.download - reset.last_read_input
             output == counter.upload - reset.last_read_output
             committed == ClientCommit(counter)
             destinations == ClientDestinations(in.routes)
         IN  IF in.exit.mesh_ip \in DOMAIN destinations
             THEN IF in.probe # "ok"
                  THEN ClientOutcome(committed, in.probe, "err", <<>>, input, output)
                  ELSE IF OverflowsU64(in.exit_price * output) /\ in.overflow_checks
                  THEN ClientOutcome(committed, "overflow", "panic", <<>>, input, output)
                  ELSE ClientOutcome(committed, "billed", "ok",
                         << [from |-> in.exit,
                             amount |-> ClientOwes(in.exit_price,
                                                   destinations[in.exit.mesh_ip].price,
                                                   input, output)] >>,
                         input, output)
             ELSE ClientOutcome(committed, "no_route", "ok", <<>>, input, output)

(* Inputs of a client round *)

ExitIdentity == Identity("ipA", "e1", "K1")

WatchPrices == {3, 1000}

ClientUsages == { WgUsage(d, u) : d \in {100, 1000}, u \in {50, 500} }

ClientCounterMaps == CounterMaps(ClientUsages, {WgUsage(900, 100)})

BabelFailures == {"connect_failed", "start_connection_failed", "parse_routes_failed"}

ProbeFailures == {"no_current_exit", "send_failed", "json_failed", "clock_failed"}

ClientInput(exit_price, babel, routes, wg_ok, counters, last_key, probe, checks) ==
    [exit |-> ExitIdentity, exit_price |-> exit_price, babel |-> babel,
     routes |-> routes, wg_ok |-> wg_ok, counters |-> counters,
     last_key |-> last_key, probe |-> probe, overflow_checks |-> checks]

\* an input the round does not get to read is left at a fixed value
ClientInputs ==
    { ClientInput(p, b, <<>>, TRUE, EmptyMap, "K1", "ok", FALSE) :
        p \in WatchPrices, b \in BabelFailures }
    \cup { ClientInput(p, "ok", r, FALSE, EmptyMap, "K1", "ok", FALSE) :
        p \in WatchPrices, r \in RouteLists }
    \cup { ClientInput(p, "ok", r, TRUE, c, "K1", "ok", FALSE) :
        p \in WatchPrices, r \in RouteLists, c \in ClientCounterMaps }

ClientIdleRound ==
    [stage |-> "idle", result |-> "none", in |-> ClientInput(3, "ok", <<>>, TRUE, EmptyMap, "K1", "ok", FALSE),
     prev |-> ClientHistory(0, 0), input |-> 0, output |-> 0]

\* the counters of the latest round that read them and sent nothing, for
\* want of a route or of an answer to the probe, until a round finds the
\* counters below the history (the tunnel has been reset)
ClientUnbilled(unbilled, history, in, out) ==
    IF out.stage \notin {"billed", "overflow", "no_route"} \cup ProbeFailures THEN unbilled
    ELSE IF out.stage \in {"no_route"} \cup ProbeFailures
    THEN Some(in.counters[in.last_key])
    ELSE IF \/ history.last_read_input > in.counters[in.last_key].download
            \/ history.last_read_output > in.counters[in.last_key].upload
    THEN None
    ELSE unbilled

\* Handler<Watch> for the client TrafficWatcher
ClientWatch ==
    /\ role = "client"
    /\ running
    /\ round.stage = "idle"
    /\ \E base \in ClientInputs :
       \* res.iter().last(): whichever entry the map iterates last
       \E last_key \in IF DOMAIN base.counters = {} THEN {"K1"} ELSE DOMAIN base.counters :
       \E probe \in {"ok"} \cup ProbeFailures :
       \E checks \in BOOLEAN :
         LET history == ClientHistory(last_read_input, last_read_output)
             in == [base EXCEPT !.last_key = last_key, !.probe = probe,
                                !.overflow_checks = checks]
             out == ClientWatchResult(history, in)
         IN  \* the probe's outcome matters only to a round that probes, the
             \* build's overflow checks only where a product overflows
             /\ probe # "ok" => out.stage = probe
             /\ checks => out.stage = "overflow"
             /\ last_read_input' = out.history.last_read_input
             /\ last_read_output' = out.history.last_read_output
             /\ debt_keeper' = out.sent
             /\ running' = (out.result # "panic")
             /\ round' = [stage |-> out.stage, result |-> out.result, in |-> in,
                          prev |-> history, input |-> out.input, output |-> out.output]
             /\ ledger' = ClientUnbilled(ledger, history, in, out)
    /\ UNCHANGED <<role, last_seen_bytes, hello, tunnel_manager, kernel,
                   settings_default_route, route_call, serde>>

\* the caller has the round's result and the DebtKeeper has taken its messages
ClientRoundDelivered ==
    /\ role = "client"
    /\ running
    /\ round.stage # "idle"
    /\ round' = ClientIdleRound
    /\ debt_keeper' = <<>>
    /\ UNCHANGED <<role, running, last_read_input, last_read_output, last_seen_bytes, others>>

\* service_started: the usage history is zeroed
ClientServiceStarted(history) == ClientHistory(0, 0)

\* Supervised: the supervisor restarts the actor after a panic.  The actor is
\* the same value (restarting() is not overridden); the framework decides
\* whether the registry's service_started hook runs again.
ClientRestart ==
    /\ role = "client"
    /\ ~running
    /\ \E started \in BOOLEAN :
         LET history == ClientHistory(last_read_input, last_read_output)
             after == IF started THEN ClientServiceStarted(history) ELSE history
         IN  /\ last_read_input' = after.last_read_input
             /\ last_read_output' = after.last_read_output
    /\ running' = TRUE
    /\ round' = ClientIdleRound
    /\ debt_keeper' = <<>>
    /\ UNCHANGED <<role, last_seen_bytes, others>>

---------------------------------------------------------------------------
(* Exit TrafficWatcher *)

OurKey == "K0"

OurMeshIp == "ip0"

OurIdentity == Identity(OurMeshIp, "e0", OurKey)

\* Mutation: the identities are keyed by mesh_ip
RECURSIVE ExitIdentitiesByIp(_)
ExitIdentitiesByIp(clients) ==
    IF clients = <<>> THEN EmptyMap
    ELSE LET n == Len(clients)
         IN  MapInsert(ExitIdentitiesByIp(SubSeq(clients, 1, n - 1)),
                       clients[n].mesh_ip, clients[n])

\* identities: wg_public_key -> Identity, the later client of a key replaces the earlier
RECURSIVE ExitIdentities(_)
ExitIdentities(clients) ==
    IF clients = <<>> THEN EmptyMap
    ELSE LET n == Len(clients)
         IN  MapInsert(ExitIdentities(SubSeq(clients, 1, n - 1)),
                       clients[n].wg_public_key, clients[n])

\* id_from_ip: mesh_ip -> Identity, ourselves first, then the clients in order
RECURSIVE ExitIdFromIp(_)
ExitIdFromIp(clients) ==
    IF clients = <<>> THEN MapInsert(EmptyMap, OurMeshIp, OurIdentity)
    ELSE LET n == Len(clients)
         IN  MapInsert(ExitIdFromIp(SubSeq(clients, 1, n - 1)),
                       clients[n].mesh_ip, clients[n])

\* destinations: wg_public_key -> price, ourselves at the local fee, then one
\* entry per billable route whose address is the mesh_ip of a known identity
RECURSIVE ExitDestinations(_, _, _)
ExitDestinations(routes, id_from_ip, local_fee) ==
    IF routes = <<>> THEN MapInsert(EmptyMap, OurKey, local_fee)
    ELSE LET n == Len(routes)
             before == ExitDestinations(SubSeq(routes, 1, n - 1), id_from_ip, local_fee)
             route == routes[n]
         IN  IF BillableRoute(route) /\ route.prefix.ip \in DOMAIN id_from_ip
             THEN MapInsert(before, id_from_ip[route.prefix.ip].wg_public_key, route.price)
             ELSE before

RECURSIVE SumOver(_, _, _)
SumOver(counters, keys, field) ==
    IF keys = {} THEN 0
    ELSE LET k == CHOOSE x \in keys : TRUE
         IN  counters[k][field] + SumOver(counters, keys \ {k}, field)

\* total_in += input.download (and total_out): u64 sums, only logged
ExitTotalsOverflow(counters) ==
    \/ OverflowsU64(SumOver(counters, DOMAIN counters, "download"))
    \/ OverflowsU64(SumOver(counters, DOMAIN counters, "upload"))

\* Setup the debts table: one zero entry per identity
ExitDebtsInit(identities) ==
    [id \in { identities[k] : k \in DOMAIN identities } |-> 0]

\* Mutation: a key not seen before starts at zero
ExitSeedHistoryFromZero(usage_history, counters) ==
    [k \in DOMAIN usage_history \cup DOMAIN counters |->
        IF k \in DOMAIN usage_history THEN usage_history[k] ELSE WgUsage(0, 0)]

\* Mutation: a key not seen before gets no entry
ExitSeedHistoryNone(usage_history, counters) == usage_history

\* setup bandwidth history: a key not seen before starts at its current counters
ExitSeedHistory(usage_history, counters) ==
    [k \in DOMAIN usage_history \cup DOMAIN counters |->
        IF k \in DOMAIN usage_history THEN usage_history[k] ELSE counters[k]]

\* tunnel has been reset somehow, reset usage
ExitResetAxis(history_bytes, current_bytes) ==
    IF history_bytes > current_bytes THEN 0 ELSE history_bytes

\* Mutation: the charge is added to the debt
ExitInputChargeNegated(price, delta) == 0 - WrapU64(price * delta)

\* *debt -= price * (bytes.download - history.download): the product is a u64
ExitInputCharge(price, delta) == WrapU64(price * delta)

\* *debt -= (dest.clone() + price) * (bytes.upload - history.upload): Int256
ExitOutputCharge(dest, price, delta) == (dest + price) * delta

\* Mutation: a download counter that went back resets the upload history too
ExitInputStepResettingBoth(st, wg_key, bytes, identities, destinations, price, checks) ==
    IF st.panicked THEN st
    ELSE IF wg_key \in DOMAIN identities /\ wg_key \in DOMAIN destinations
              /\ wg_key \in DOMAIN st.history /\ identities[wg_key] \in DOMAIN st.debts
    THEN LET id == identities[wg_key]
             download == ExitResetAxis(st.history[wg_key].download, bytes.download)
             upload == IF st.history[wg_key].download > bytes.download THEN 0
                       ELSE st.history[wg_key].upload
             delta == bytes.download - download
         IN  IF OverflowsU64(price * delta) /\ checks
             THEN [st EXCEPT !.history[wg_key].download = download, !.panicked = TRUE]
             ELSE [st EXCEPT !.debts[id] = @ - ExitInputCharge(price, delta),
                             !.history[wg_key] = WgUsage(bytes.download, upload)]
    ELSE st

\* Mutation: the arms that only warn also take the download counter into the history
ExitInputStepCommitting(st, wg_key, bytes, identities, destinations, price, checks) ==
    IF st.panicked THEN st
    ELSE IF wg_key \in DOMAIN identities /\ wg_key \in DOMAIN destinations
              /\ wg_key \in DOMAIN st.history /\ identities[wg_key] \in DOMAIN st.debts
    THEN LET id == identities[wg_key]
             download == ExitResetAxis(st.history[wg_key].download, bytes.download)
             delta == bytes.download - download
         IN  IF OverflowsU64(price * delta) /\ checks
             THEN [st EXCEPT !.history[wg_key].download = download, !.panicked = TRUE]
             ELSE [st EXCEPT !.debts[id] = @ - ExitInputCharge(price, delta),
                             !.history[wg_key].download = bytes.download]
    ELSE [st EXCEPT !.history[wg_key].download = bytes.download]

\* one iteration of "accounting for 'input'"; st = [history, debts, panicked]
ExitInputStep(st, wg_key, bytes, identities, destinations, price, checks) ==
    IF st.panicked THEN st
    ELSE IF wg_key \in DOMAIN identities /\ wg_key \in DOMAIN destinations
              /\ wg_key \in DOMAIN st.history /\ identities[wg_key] \in DOMAIN st.debts
    THEN LET id == identities[wg_key]
             download == ExitResetAxis(st.history[wg_key].download, bytes.download)
             delta == bytes.download - download
         IN  IF OverflowsU64(price * delta) /\ checks
             THEN [st EXCEPT !.history[wg_key].download = download, !.panicked = TRUE]
             ELSE [st EXCEPT !.debts[id] = @ - ExitInputCharge(price, delta),
                             !.history[wg_key].download = bytes.download]
    ELSE st  \* the other arms only warn

\* Mutation: the arms that only warn also take the upload counter into the history
ExitOutputStepCommitting(st, wg_key, bytes, identities, destinations, price) ==
    IF st.panicked THEN st
    ELSE IF wg_key \in DOMAIN identities /\ wg_key \in DOMAIN destinations
              /\ wg_key \in DOMAIN st.history /\ identities[wg_key] \in DOMAIN st.debts
    THEN LET id == identities[wg_key]
             upload == ExitResetAxis(st.history[wg_key].upload, bytes.upload)
             delta == bytes.upload - upload
         IN  [st EXCEPT !.debts[id] = @ - ExitOutputCharge(destinations[wg_key], price, delta),
                        !.history[wg_key].upload = bytes.upload]
    ELSE [st EXCEPT !.history[wg_key].upload = bytes.upload]

\* one iteration of "accounting for 'output'"
ExitOutputStep(st, wg_key, bytes, identities, destinations, price) ==
    IF st.panicked THEN st
    ELSE IF wg_key \in DOMAIN identities /\ wg_key \in DOMAIN destinations
              /\ wg_key \in DOMAIN st.history /\ identities[wg_key] \in DOMAIN st.debts
    THEN LET id == identities[wg_key]
             upload == ExitResetAxis(st.history[wg_key].upload, bytes.upload)
             delta == bytes.upload - upload
         IN  [st EXCEPT !.debts[id] = @ - ExitOutputCharge(destinations[wg_key], price, delta),
                        !.history[wg_key].upload = bytes.upload]
    ELSE st  \* the other arms only warn

\* for (wg_key, bytes) in counters, in the map's iteration order
RECURSIVE ExitInputPass(_, _, _, _, _, _, _)
ExitInputPass(st, order, counters, identities, destinations, price, checks) ==
    IF order = <<>> THEN st
    ELSE ExitInputPass(
           ExitInputStep(st, Head(order), counters[Head(order)], identities,
                         destinations, price, checks),
           Tail(order), counters, identities, destinations, price, checks)

RECURSIVE ExitOutputPass(_, _, _, _, _, _)
ExitOutputPass(st, order, counters, identities, destinations, price) ==
    IF order = <<>> THEN st
    ELSE ExitOutputPass(
           ExitOutputStep(st, Head(order), counters[Head(order)], identities,
                          destinations, price),
           Tail(order), counters, identities, destinations, price)

\* for (from, amount) in debts: one TrafficUpdate each, in the map's iteration order
ExitUpdates(debts, send_order) ==
    [i \in 1..Len(send_order) |-> [from |-> send_order[i], amount |-> debts[send_order[i]]]]

ExitOutcome(usage_history, stage, result, sent, debts) ==
    [history |-> usage_history, stage |-> stage, result |-> result, sent |-> sent,
     debts |-> debts]

\* Mutation: an early return that also forgets the usage history
ExitAbortClearing(usage_history, stage) ==
    ExitOutcome(EmptyMap, stage, "err", <<>>, EmptyMap)

\* an early return with Err: nothing is sent and the history is as it was
ExitAbort(usage_history, stage) == ExitOutcome(usage_history, stage, "err", <<>>, EmptyMap)

\* Mutation: without a mesh ip the round is given up quietly
ExitNoMeshIpIgnored(usage_history) ==
    ExitOutcome(usage_history, "no_mesh_ip", "ok", <<>>, EmptyMap)

\* None => bail!("No mesh ip configured yet!")
ExitNoMeshIp(usage_history) == ExitAbort(usage_history, "no_mesh_ip")

\* watch(usage_history, babel, clients), after the TCP connect of handle()
ExitWatchResult(usage_history, in) ==
    IF in.babel # "ok"
    THEN ExitAbort(usage_history, in.babel)
    ELSE IF ~in.mesh_ip_set
    THEN ExitNoMeshIp(usage_history)
    ELSE IF ~in.local_fee_ok
    THEN ExitOutcome(usage_history, "get_local_fee_failed", "panic", <<>>, EmptyMap)
    ELSE IF ~in.wg_ok
    THEN ExitAbort(usage_history, "read_wg_counters_failed")
    ELSE IF ExitTotalsOverflow(in.counters) /\ in.overflow_checks
    THEN ExitOutcome(usage_history, "overflow", "panic", <<>>, EmptyMap)
    ELSE LET identities == ExitIdentities(in.clients)
             destinations == ExitDestinations(in.routes, ExitIdFromIp(in.clients),
                                              in.local_fee)
             start == [history |-> ExitSeedHistory(usage_history, in.counters),
                       debts |-> ExitDebtsInit(identities), panicked |-> FALSE]
             after_input == ExitInputPass(start, in.order, in.counters, identities,
                                          destinations, in.exit_price, in.overflow_checks)
             after_output == ExitOutputPass(after_input, in.order, in.counters, identities,
                                            destinations, in.exit_price)
         IN  IF after_input.panicked
             THEN ExitOutcome(after_input.history, "overflow", "panic", <<>>,
                              after_input.debts)
             ELSE ExitOutcome(after_output.history, "billed", "ok",
                              ExitUpdates(after_output.debts, in.send_order),
                              after_output.debts)

(* Inputs of an exit round *)

IdentityUniverse ==
    { Identity("ipA", "e1", "K1"), Identity("ipB", "e1", "K2"), Identity("ipA", "e1", "K2") }

ClientLists == BoundedSeq(IdentityUniverse, MaxClients)

\* the routes the exit is given: the IPv6 host routes of RouteUniverse,
\* installed or not
ExitRouteLists ==
    BoundedSeq({ route \in RouteUniverse :
                   route.prefix.family = "V6" /\ route.prefix.prefix = 128 }, MaxRoutes)

SettingPrices == {1, 1000}

LocalFees == {5}

ExitUsages == { WgUsage(200, 100), WgUsage(500, 300), WgUsage(500, 100), WgUsage(200, 300) }

ExitCounterMaps == CounterMaps(ExitUsages, {WgUsage(200, 100), WgUsage(500, 300)})

\* the orders in which a map may iterate over the set S
Orders(S) == { o \in [1..Cardinality(S) -> S] : \A i, j \in DOMAIN o : i # j => o[i] # o[j] }

ExitInput(babel, mesh_ip_set, local_fee_ok, clients, routes, wg_ok, counters, price) ==
    [babel |-> babel, mesh_ip_set |-> mesh_ip_set, local_fee_ok |-> local_fee_ok,
     local_fee |-> CHOOSE f \in LocalFees : TRUE, clients |-> clients, routes |-> routes,
     wg_ok |-> wg_ok, counters |-> counters, exit_price |-> price, order |-> <<>>,
     send_order |-> <<>>, overflow_checks |-> FALSE]

\* an input the round does not get to read is left at a fixed value
ExitInputs ==
    { ExitInput(b, TRUE, TRUE, <<>>, <<>>, TRUE, EmptyMap, 1) : b \in BabelFailures }
    \cup { ExitInput("ok", FALSE, TRUE, c, <<>>, TRUE, EmptyMap, 1) : c \in ClientLists }
    \cup { ExitInput("ok", TRUE, FALSE, c, <<>>, TRUE, EmptyMap, 1) : c \in ClientLists }
    \cup { ExitInput("ok", TRUE, TRUE, c, r, FALSE, EmptyMap, 1) :
             c \in ClientLists, r \in ExitRouteLists }
    \cup { ExitInput("ok", TRUE, TRUE, c, r, TRUE, m, p) :
             c \in ClientLists, r \in ExitRouteLists, m \in ExitCounterMaps,
             p \in SettingPrices }

ExitIdleRound ==
    [stage |-> "idle", result |-> "none",
     in |-> ExitInput("ok", TRUE, TRUE, <<>>, <<>>, TRUE, EmptyMap, 1),
     prev |-> EmptyMap, debts |-> EmptyMap]

\* Handler<Watch> for the exit TrafficWatcher
ExitWatch ==
    /\ role = "exit"
    /\ running
    /\ round.stage = "idle"
    /\ \E base \in ExitInputs :
         LET orders == Orders(DOMAIN base.counters)
             send_orders == Orders(DOMAIN ExitDebtsInit(ExitIdentities(base.clients)))
             any_order == CHOOSE o \in orders : TRUE
             checked == ExitWatchResult(last_seen_bytes,
                            [base EXCEPT !.order = any_order, !.overflow_checks = TRUE])
             overflows == checked.stage = "overflow"
         IN  \* the build's overflow checks matter only to a round in which a sum
             \* or a product overflows, the iteration order of the counters only
             \* to a round that panics half way, the order of the debts only to
             \* a round that sends
             \E checks \in IF overflows THEN BOOLEAN ELSE {FALSE} :
             \E order \in IF checks THEN orders ELSE {any_order} :
             \E send_order \in IF checks THEN {<<>>} ELSE send_orders :
               LET in == [base EXCEPT !.order = order, !.send_order = send_order,
                                      !.overflow_checks = checks]
                   out == ExitWatchResult(last_seen_bytes, in)
               IN  /\ last_seen_bytes' = out.history
                   /\ debt_keeper' = out.sent
                   /\ running' = (out.result # "panic")
                   /\ round' = [stage |-> out.stage, result |-> out.result,
                                in |-> [in EXCEPT !.order = <<>>],
                                prev |-> last_seen_bytes, debts |-> out.debts]
    /\ UNCHANGED <<role, last_read_input, last_read_output, others>>

\* the caller has the round's result and the DebtKeeper has taken its messages
ExitRoundDelivered ==
    /\ role = "exit"
    /\ running
    /\ round.stage # "idle"
    /\ round' = ExitIdleRound
    /\ debt_keeper' = <<>>
    /\ UNCHANGED <<role, running, last_read_input, last_read_output, last_seen_bytes, others>>

\* service_started: the tunnel and the NAT are set up, last_seen_bytes is not touched
ExitServiceStarted(usage_history) == usage_history

\* Supervised: the supervisor restarts the actor after a panic.  The actor is
\* the same value (restarting() is not overridden), and service_started,
\* run again or not, leaves last_seen_bytes as it is.
ExitRestart ==
    /\ role = "exit"
    /\ ~running
    /\ last_seen_bytes' = ExitServiceStarted(last_seen_bytes)
    /\ running' = TRUE
    /\ round' = ExitIdleRound
    /\ debt_keeper' = <<>>
    /\ UNCHANGED <<role, last_read_input, last_read_output, others>>

(* Rounds of the exit in which the counters of K1 never go back, at one     *)
(* price and with one route: rounds with or without K1's identity, with or  *)
(* without its route, with or without K1 among the counters.                *)

SteadyUsages == { WgUsage(200, 100), WgUsage(500, 100), WgUsage(500, 300), WgUsage(700, 400) }

SteadyInputs ==
    { ExitInput("ok", TRUE, TRUE, c, r, TRUE, m, 1) :
        c \in { <<>>, << Identity("ipA", "e1", "K1") >> },
        r \in { <<>>, << Route("V6", "ipA", 128, TRUE, 7) >>,
                << Route("V6", "ipA", 128, FALSE, 7) >> },
        m \in { EmptyMap } \cup { MapInsert(EmptyMap, "K1", u) : u \in SteadyUsages } }

\* what the rounds so far have done for K1: its counters when first seen, at
\* the latest round that had its identity and its route, and at the latest
\* round; the sum of the amounts sent for it; whether the latest round billed
\* bytes that an earlier round had counted and left unbilled
ExitLedger(l, usage_history, in, out) ==
    LET present == "K1" \in DOMAIN in.counters
        cur == in.counters["K1"]
        accounted ==
            /\ present
            /\ "K1" \in DOMAIN ExitIdentities(in.clients)
            /\ "K1" \in DOMAIN ExitDestinations(in.routes, ExitIdFromIp(in.clients), in.local_fee)
        first == IF l.first.some \/ ~present THEN l.first ELSE Some(cur)
        sent == { i \in DOMAIN out.sent : out.sent[i].from.wg_public_key = "K1" }
    IN  [first |-> first,
         last |-> IF accounted THEN Some(cur) ELSE IF l.last.some THEN l.last ELSE first,
         seen |-> IF present THEN Some(cur) ELSE l.seen,
         total |-> l.total + (IF sent = {} THEN 0 ELSE out.sent[CHOOSE i \in sent : TRUE].amount),
         caught_up |-> /\ accounted
                       /\ l.seen.some
                       /\ "K1" \in DOMAIN usage_history
                       /\ l.seen.value # usage_history["K1"]]

\* Handler<Watch> for the exit TrafficWatcher, in a run of steady rounds
ExitSteadyWatch ==
    /\ role = "exit"
    /\ running
    /\ round.stage = "idle"
    /\ ledger.some
    /\ \E base \in SteadyInputs :
         LET in == [base EXCEPT !.order = CHOOSE o \in Orders(DOMAIN base.counters) : TRUE,
                                !.send_order =
                                    CHOOSE o \in Orders(DOMAIN ExitDebtsInit(
                                                          ExitIdentities(base.clients))) : TRUE]
             out == ExitWatchResult(last_seen_bytes, in)
         IN  /\ ("K1" \in DOMAIN in.counters /\ ledger.value.seen.some) =>
                  /\ ledger.value.seen.value.download <= in.counters["K1"].download
                  /\ ledger.value.seen.value.upload <= in.counters["K1"].upload
             /\ last_seen_bytes' = out.history
             /\ debt_keeper' = out.sent
             /\ running' = (out.result # "panic")
             /\ round' = [stage |-> out.stage, result |-> out.result,
                          in |-> [in EXCEPT !.order = <<>>],
                          prev |-> last_seen_bytes, debts |-> out.debts]
             /\ ledger' = Some(ExitLedger(ledger.value, last_seen_bytes, in, out))
    /\ UNCHANGED <<role, last_read_input, last_read_output, hello, tunnel_manager, kernel,
                   settings_default_route, route_call, serde>>

---------------------------------------------------------------------------
(* HTTPClient: the Hello handler.  handle() starts the TCP connect and      *)
(* returns a future; the closure of stream.then runs when the connect has   *)
(* settled, the closure of send().then when the response has, the closure   *)
(* of json().then when the body has.  Several invocations may be in flight. *)

MaxHellos == 2

LocalIdentity(wg_port, global) == [wg_port |-> wg_port, global |-> global]

Peer(contact_socket) == [contact_socket |-> contact_socket]

Hello(my_id, to) == [my_id |-> my_id, to |-> to]

PortCallback(wg_port) == [callback |-> "PortCallback", wg_port |-> wg_port]

IdentityCallback(local_identity, peer, our_port) ==
    [callback |-> "IdentityCallback", local_identity |-> local_identity,
     peer |-> peer, our_port |-> our_port]

\* the future handle() returns: the message it owns and how far it has run
HelloFuture(msg, stage, stream, request, response, val, body, result) ==
    [msg |-> msg, stage |-> stage, stream |-> stream, request |-> request,
     response |-> response, val |-> val, body |-> body, result |-> result]

HelloStep(future, sent) == [future |-> future, sent |-> sent]

\* handle(): the connect is started, nothing has settled
HelloStarted(msg) ==
    HelloFuture(msg, "connecting", "pending", "pending", "pending", "pending", None,
                "pending")

\* Mutation: a request that does not serialize returns without releasing the port
HelloStreamLeaking(future, stream, request) ==
    LET wg_port == future.msg.my_id.wg_port
    IN  IF stream = "err"
        THEN HelloStep([future EXCEPT !.stage = "done", !.result = "ok", !.stream = "err"],
                       << PortCallback(wg_port) >>)
        ELSE IF request = "err"
        THEN HelloStep([future EXCEPT !.stage = "done", !.result = "ok", !.stream = "ok", !.request = "err"],
                       << >>)
        ELSE HelloStep([future EXCEPT !.stage = "sending", !.stream = "ok", !.request = "ok"],
                       << >>)

\* the closure of stream.then, up to network_json.send()
HelloStream(future, stream, request) ==
    LET wg_port == future.msg.my_id.wg_port
    IN  IF stream = "err"
        THEN HelloStep([future EXCEPT !.stage = "done", !.result = "ok", !.stream = "err"],
                       << PortCallback(wg_port) >>)
        ELSE IF request = "err"
        THEN HelloStep([future EXCEPT !.stage = "done", !.result = "ok", !.stream = "ok", !.request = "err"],
                       << PortCallback(wg_port) >>)
        ELSE HelloStep([future EXCEPT !.stage = "sending", !.stream = "ok", !.request = "ok"],
                       << >>)

\* Mutation: the error of the request is dropped and the future never resolves
HelloResponseHanging(future, response) ==
    IF response = "err"
    THEN HelloStep([future EXCEPT !.stage = "lost", !.response = "err"], << >>)
    ELSE HelloStep([future EXCEPT !.stage = "parsing", !.response = "ok"], << >>)

\* the closure of send().then: the response, or the error of the request
HelloResponse(future, response) ==
    LET wg_port == future.msg.my_id.wg_port
    IN  IF response = "err"
        THEN HelloStep([future EXCEPT !.stage = "done", !.result = "ok", !.response = "err"],
                       << PortCallback(wg_port) >>)
        ELSE HelloStep([future EXCEPT !.stage = "parsing", !.response = "ok"], << >>)

\* response.json(): the body read as a LocalIdentity
ParseLocalIdentity(body) ==
    IF body.json = "local_identity"
    THEN [ok |-> TRUE, val |-> LocalIdentity(body.wg_port, body.global)]
    ELSE [ok |-> FALSE]

\* Mutation: the callback releases the port the peer reported
HelloJsonPeerPort(future, body) ==
    LET wg_port == future.msg.my_id.wg_port
        peer == future.msg.to
        val == ParseLocalIdentity(body)
    IN  IF val.ok
        THEN HelloStep([future EXCEPT !.stage = "done", !.result = "ok", !.val = "ok", !.body = Some(body)],
                       << IdentityCallback(val.val, peer, Some(val.val.wg_port)) >>)
        ELSE HelloStep([future EXCEPT !.stage = "done", !.result = "ok", !.val = "err", !.body = Some(body)],
                       << PortCallback(wg_port) >>)

\* the closure of json().then
HelloJson(future, body) ==
    LET wg_port == future.msg.my_id.wg_port
        peer == future.msg.to
        val == ParseLocalIdentity(body)
    IN  IF val.ok
        THEN HelloStep([future EXCEPT !.stage = "done", !.result = "ok", !.val = "ok", !.body = Some(body)],
                       << IdentityCallback(val.val, peer, Some(wg_port)) >>)
        ELSE HelloStep([future EXCEPT !.stage = "done", !.result = "ok", !.val = "err", !.body = Some(body)],
                       << PortCallback(wg_port) >>)

(* Inputs of the Hello handler *)

WgPorts == {60000, 60001}

Sockets == {"[fd00::1]:4876", "[fd00::2]:4876"}

MyGlobal == Identity("ip0", "e0", "K0")

HelloMessages == { Hello(LocalIdentity(p, MyGlobal), Peer(s)) : p \in WgPorts, s \in Sockets }

\* what a peer may answer: its LocalIdentity as JSON, or something else
ResponseBodies ==
    { [json |-> "local_identity", wg_port |-> p, global |-> ExitIdentity] : p \in WgPorts }
    \cup { [json |-> "malformed"] }

\* do_send of the messages of one step, tagged with the invocation they belong to
TunnelManagerSend(i, sent) ==
    tunnel_manager \o [n \in 1..Len(sent) |-> [hello |-> i, message |-> sent[n]]]

\* Handler<Hello> for HTTPClient: handle()
HelloHandle ==
    /\ role = "hello"
    /\ Len(hello) < MaxHellos
    /\ \E msg \in HelloMessages : hello' = Append(hello, HelloStarted(msg))
    /\ UNCHANGED <<role, running, last_read_input, last_read_output, last_seen_bytes,
                   debt_keeper, round, tunnel_manager, kernel,
                   settings_default_route, route_call,
                   serde,
                   ledger>>

HelloAdvance(i, step) ==
    /\ hello' = [hello EXCEPT ![i] = step.future]
    /\ tunnel_manager' = TunnelManagerSend(i, step.sent)
    /\ UNCHANGED <<role, running, last_read_input, last_read_output, last_seen_bytes,
                   debt_keeper, round, kernel,
                   settings_default_route, route_call,
                   serde,
                   ledger>>

\* the TCP connect of an invocation settles
HelloStreamSettled ==
    /\ role = "hello"
    /\ \E i \in DOMAIN hello :
         /\ hello[i].stage = "connecting"
         /\ \E stream \in {"ok", "err"} :
            \E request \in IF stream = "ok" THEN {"ok", "err"} ELSE {"pending"} :
              HelloAdvance(i, HelloStream(hello[i], stream, request))

\* the request of an invocation settles
HelloResponseSettled ==
    /\ role = "hello"
    /\ \E i \in DOMAIN hello :
         /\ hello[i].stage = "sending"
         /\ \E response \in {"ok", "err"} :
              HelloAdvance(i, HelloResponse(hello[i], response))

\* the body of the response of an invocation settles
HelloJsonSettled ==
    /\ role = "hello"
    /\ \E i \in DOMAIN hello :
         /\ hello[i].stage = "parsing"
         /\ \E body \in ResponseBodies :
              HelloAdvance(i, HelloJson(hello[i], body))

---------------------------------------------------------------------------
(* KernelInterface: ip_route.  The output of a command is a sequence of     *)
(* characters; the word "default" is DefaultWord, two characters long here. *)

MaxStdout == 6
MaxTokens == 3

Chars == {"d", "f", " ", "\n"}

DefaultWord == <<"d", "f">>

\* char::is_whitespace, over Chars
IsWhitespace(c) == c \in {" ", "\n"}

\* str::lines: the text split at each "\n"; no line after a final "\n"
RECURSIVE Lines(_)
Lines(text) ==
    IF text = <<>> THEN <<>>
    ELSE LET ends == { i \in DOMAIN text : text[i] = "\n" }
         IN  IF ends = {} THEN << text >>
             ELSE LET e == CHOOSE i \in ends : \A j \in ends : i <= j
                  IN  << SubSeq(text, 1, e - 1) >> \o Lines(SubSeq(text, e + 1, Len(text)))

\* str::starts_with
StartsWith(line, word) ==
    /\ Len(line) >= Len(word)
    /\ SubSeq(line, 1, Len(word)) = word

\* str::split_whitespace: the maximal runs of characters that are not whitespace
RECURSIVE SplitWhitespace(_)
SplitWhitespace(line) ==
    IF line = <<>> THEN <<>>
    ELSE IF IsWhitespace(line[1]) THEN SplitWhitespace(Tail(line))
    ELSE LET stops == { i \in DOMAIN line : IsWhitespace(line[i]) }
             e == IF stops = {} THEN Len(line) + 1
                  ELSE CHOOSE i \in stops : \A j \in stops : i <= j
         IN  << SubSeq(line, 1, e - 1) >> \o SplitWhitespace(SubSeq(line, e, Len(line)))

\* Mutation: the last of the default lines is returned
GetDefaultRouteLast(stdout) ==
    LET found == SelectSeq(Lines(stdout), LAMBDA line : StartsWith(line, DefaultWord))
    IN  IF found = <<>> THEN None ELSE Some(SplitWhitespace(found[Len(found)]))

\* get_default_route, from the stdout of `ip route list default` on
GetDefaultRoute(stdout) ==
    LET found == SelectSeq(Lines(stdout), LAMBDA line : StartsWith(line, DefaultWord))
    IN  IF found = <<>> THEN None ELSE Some(SplitWhitespace(found[1]))

CommandOutput(status, utf8, stdout) == [status |-> status, utf8 |-> utf8, stdout |-> stdout]

Texts == UNION { [1..n -> Chars] : n \in 0..MaxStdout }

\* what run_command may give: an error, bytes that are not UTF-8, or a text
CommandOutputs ==
    { CommandOutput("err", TRUE, <<>>), CommandOutput("ok", FALSE, <<>>) }
    \cup { CommandOutput("ok", TRUE, t) : t \in Texts }

KernelCall(call, output, outcome, result) ==
    [call |-> call, output |-> output, outcome |-> outcome, result |-> result]

KernelIdle == KernelCall("idle", CommandOutput("ok", TRUE, <<>>), "none", None)

\* get_default_route with its two unwraps
GetDefaultRouteCall(output) ==
    IF output.status # "ok" \/ ~output.utf8
    THEN KernelCall("get_default_route", output, "panic", None)
    ELSE KernelCall("get_default_route", output, "ok", GetDefaultRoute(output.stdout))

KernelGetDefaultRoute ==
    /\ role = "kernel"
    /\ running
    /\ kernel.call = "idle"
    /\ \E output \in CommandOutputs :
         /\ kernel' = GetDefaultRouteCall(output)
         /\ running' = (kernel'.outcome # "panic")
    /\ UNCHANGED <<role, last_read_input, last_read_output, last_seen_bytes,
                   debt_keeper, round, hello, tunnel_manager,
                   settings_default_route, route_call,
                   serde,
                   ledger>>

\* the caller has the result
KernelReturned ==
    /\ role = "kernel"
    /\ running
    /\ kernel.call # "idle"
    /\ kernel' = KernelIdle
    /\ UNCHANGED <<role, running, last_read_input, last_read_output, last_seen_bytes,
                   debt_keeper, round, hello, tunnel_manager,
                   settings_default_route, route_call,
                   serde,
                   ledger>>

---------------------------------------------------------------------------
(* KernelInterface: the default route and its saved copy.  A route is a     *)
(* list of tokens, a token a sequence of characters as get_default_route    *)
(* returns them; the token "wg_exit" is WgExitToken, one character long.    *)

WgExitToken == <<"f">>

\* an argument given as a literal
Arg(s) == <<s>>

\* the tokens of a default route after its first: a device or address, the
\* tunnel's marker, a longer word
RouteTokens == { <<"d">>, WgExitToken, <<"d", "d">> }

\* the routes get_default_route can return: the first token begins the line
HostRoutes ==
    { << DefaultWord >> \o rest : rest \in UNION { [1..n -> RouteTokens] : n \in 0..(MaxTokens - 1) } }

\* what get_default_route may do: panic, or return None or a route
HostDefaultRoutes ==
    { [outcome |-> "panic", result |-> None], [outcome |-> "ok", result |-> None] }
        \cup { [outcome |-> "ok", result |-> Some(route)] : route \in HostRoutes }

\* the token lists a caller may hold: none, or a route read from the host
TokenLists == { <<>> } \cup HostRoutes

EndpointIps == {"127.0.0.1", "fd00::2"}

\* Vec::contains
Contains(route, token) == \E i \in DOMAIN route : route[i] = token

RouteOutcome(outcome, saved, commands) ==
    [outcome |-> outcome, saved |-> saved, commands |-> commands]

\* run_command("ip", args)?
RunIp(args, run_ok, saved) ==
    RouteOutcome(IF run_ok THEN "ok" ELSE "err", saved,
                 << [program |-> "ip", args |-> args] >>)

\* Mutation: the first token of the route is passed on too
SetRouteWhole(to, route, run_ok, saved) ==
    IF route = <<>> THEN RouteOutcome("panic", saved, <<>>)
    ELSE RunIp(<< Arg("route"), Arg("add"), Arg(to) >> \o route, run_ok, saved)

\* set_route; reserve(route.len() - 1) panics on an empty route
SetRoute(to, route, run_ok, saved) ==
    IF route = <<>> THEN RouteOutcome("panic", saved, <<>>)
    ELSE RunIp(<< Arg("route"), Arg("add"), Arg(to) >> \o Tail(route), run_ok, saved)

\* set_default_route; reserve(route.len() - 1) panics on an empty route
SetDefaultRoute(route, run_ok, saved) ==
    IF route = <<>> THEN RouteOutcome("panic", saved, <<>>)
    ELSE RunIp(<< Arg("route"), Arg("add"), Arg("default") >> \o Tail(route), run_ok, saved)

\* Mutation: the host's default route is saved whatever it holds
UpdateSettingsRouteAlways(saved, host) ==
    IF host.outcome = "panic" THEN RouteOutcome("panic", saved, <<>>)
    ELSE IF ~host.result.some THEN RouteOutcome("ok", saved, <<>>)
    ELSE RouteOutcome("ok", host.result.value, <<>>)

\* update_settings_route
UpdateSettingsRoute(saved, host) ==
    IF host.outcome = "panic" THEN RouteOutcome("panic", saved, <<>>)
    ELSE IF ~host.result.some THEN RouteOutcome("ok", saved, <<>>)
    ELSE IF ~Contains(host.result.value, WgExitToken)
    THEN RouteOutcome("ok", host.result.value, <<>>)
    ELSE RouteOutcome("ok", saved, <<>>)

\* manual_peers_route
ManualPeersRoute(endpoint_ip, saved, host, run_ok) ==
    LET updated == UpdateSettingsRoute(saved, host)
    IN  IF updated.outcome # "ok" THEN updated
        ELSE SetRoute(endpoint_ip, updated.saved, run_ok, updated.saved)

\* restore_default_route
RestoreDefaultRoute(saved, host, run_ok) ==
    IF host.outcome = "panic" THEN RouteOutcome("panic", saved, <<>>)
    ELSE IF host.result.some
    THEN IF Contains(host.result.value, WgExitToken)
         THEN SetDefaultRoute(saved, run_ok, saved)
         ELSE RouteOutcome("ok", host.result.value, <<>>)
    ELSE SetDefaultRoute(saved, run_ok, saved)

RouteCall(call, to, route, host, run_ok, before, outcome, commands) ==
    [call |-> call, to |-> to, route |-> route, host |-> host, run_ok |-> run_ok,
     before |-> before, outcome |-> outcome, commands |-> commands]

NoHost == [outcome |-> "ok", result |-> None]

RouteIdle == RouteCall("idle", "none", <<>>, NoHost, TRUE, <<>>, "none", <<>>)

\* a call has run: its arguments, what it read, what it did
RouteCalled(call, to, route, host, run_ok, out) ==
    /\ role = "route"
    /\ running
    /\ route_call.call = "idle"
    /\ route_call' = RouteCall(call, to, route, host, run_ok, settings_default_route,
                               out.outcome, out.commands)
    /\ settings_default_route' = out.saved
    /\ running' = (out.outcome # "panic")
    /\ UNCHANGED <<role, last_read_input, last_read_output, last_seen_bytes,
                   debt_keeper, round, hello, tunnel_manager, kernel,
                   serde,
                   ledger>>

\* a command that is not run is taken to succeed
RunOutcomes(out) == IF out.commands = <<>> THEN {TRUE} ELSE BOOLEAN

RouteSetRoute ==
    \E to \in EndpointIps : \E route \in TokenLists : \E run_ok \in BOOLEAN :
      LET out == SetRoute(to, route, run_ok, settings_default_route)
      IN  /\ run_ok \in RunOutcomes(out)
          /\ RouteCalled("set_route", to, route, NoHost, run_ok, out)

RouteSetDefaultRoute ==
    \E route \in TokenLists : \E run_ok \in BOOLEAN :
      LET out == SetDefaultRoute(route, run_ok, settings_default_route)
      IN  /\ run_ok \in RunOutcomes(out)
          /\ RouteCalled("set_default_route", "none", route, NoHost, run_ok, out)

RouteUpdateSettingsRoute ==
    \E host \in HostDefaultRoutes : \E run_ok \in BOOLEAN :
      LET out == UpdateSettingsRoute(settings_default_route, host)
      IN  /\ run_ok \in RunOutcomes(out)
          /\ RouteCalled("update_settings_route", "none", <<>>, host, run_ok, out)

RouteManualPeersRoute ==
    \E to \in EndpointIps : \E host \in HostDefaultRoutes : \E run_ok \in BOOLEAN :
      LET out == ManualPeersRoute(to, settings_default_route, host, run_ok)
      IN  /\ run_ok \in RunOutcomes(out)
          /\ RouteCalled("manual_peers_route", to, <<>>, host, run_ok, out)

RouteRestoreDefaultRoute ==
    \E host \in HostDefaultRoutes : \E run_ok \in BOOLEAN :
      LET out == RestoreDefaultRoute(settings_default_route, host, run_ok)
      IN  /\ run_ok \in RunOutcomes(out)
          /\ RouteCalled("restore_default_route", "none", <<>>, host, run_ok, out)

\* the caller has the result
RouteReturned ==
    /\ role = "route"
    /\ running
    /\ route_call.call # "idle"
    /\ route_call' = RouteIdle
    /\ UNCHANGED <<role, running, last_read_input, last_read_output, last_seen_bytes,
                   debt_keeper, round, hello, tunnel_manager, kernel,
                   settings_default_route,
                   serde,
                   ledger>>

---------------------------------------------------------------------------
(* althea_types: the JSON form of Identity, PaymentTx, the ethereum types *)
(* and ExitState.  A text is a sequence of characters; a JSON object is   *)
(* the sequence of its fields in the order they are written.  Widths are  *)
(* scaled: an address has IpGroups groups of one hex digit, an EthAddress *)
(* AddrDigits hex digits (a key one more, a signature two more), a WgKey  *)
(* KeyBytes bytes.  Reading gives Some(value), or None for an error.      *)

IpGroups == 3
AddrDigits == 2
KeyBytes == 1

JValue(kind, v) == [kind |-> kind, v |-> v]
Field(name, value) == [name |-> name, value |-> value]

HexAlphabet ==
    << "0", "1", "2", "3", "4", "5", "6", "7", "8", "9", "a", "b", "c", "d", "e", "f" >>

Base64Alphabet ==
    << "A", "B", "C", "D", "E", "F", "G", "H", "I", "J", "K", "L", "M", "N", "O", "P",
       "Q", "R", "S", "T", "U", "V", "W", "X", "Y", "Z", "a", "b", "c", "d", "e", "f",
       "g", "h", "i", "j", "k", "l", "m", "n", "o", "p", "q", "r", "s", "t", "u", "v",
       "w", "x", "y", "z", "0", "1", "2", "3", "4", "5", "6", "7", "8", "9", "+", "/" >>

\* the number written with the characters of an alphabet, most significant
\* first; None when a character is not of the alphabet
RECURSIVE Number(_, _)
Number(text, alphabet) ==
    IF text = <<>> THEN Some(0)
    ELSE LET high == Number(SubSeq(text, 1, Len(text) - 1), alphabet)
             found == { i \in DOMAIN alphabet : alphabet[i] = text[Len(text)] }
         IN  IF high.some /\ found # {}
             THEN Some(Len(alphabet) * high.value + (CHOOSE i \in found : TRUE) - 1)
             ELSE None

\* Mutation: a fixed-width value is written without its leading zeros
FixedHexShort(n, width) ==
    LET short == CHOOSE d \in 1..width : n < 16 ^ d /\ (d = 1 \/ n >= 16 ^ (d - 1))
    IN  << "0", "x" >> \o [i \in 1..short |-> HexAlphabet[((n \div (16 ^ (short - i))) % 16) + 1]]

\* an EthAddress, key or signature: 0x and every digit of the width
FixedHex(n, width) ==
    << "0", "x" >> \o [i \in 1..width |-> HexAlphabet[((n \div (16 ^ (width - i))) % 16) + 1]]

\* a Uint256 amount: 0x and the digits without leading zeros
MinimalHex(n) ==
    FixedHex(n, CHOOSE d \in 1..6 : n < 16 ^ d /\ (d = 1 \/ n >= 16 ^ (d - 1)))

\* the number after 0x; of the given width when widths holds one
ParseHex(json, widths) ==
    IF /\ json.kind = "string"
       /\ Len(json.v) >= 3
       /\ json.v[1] = "0"
       /\ json.v[2] = "x"
       /\ widths # {} => Len(json.v) - 2 \in widths
    THEN Number(SubSeq(json.v, 3, Len(json.v)), HexAlphabet)
    ELSE None

\* RFC 5952 text of an IPv6 address: groups joined by colons, the longest
\* run of two or more zero groups, the first of these, written as ::
Ipv6Text(groups) ==
    LET Join(gs) == [i \in 1..(2 * Len(gs) - 1) |->
                        IF i % 2 = 1 THEN HexAlphabet[gs[(i + 1) \div 2] + 1] ELSE ":"]
        ZeroRun(from, to) == from < to /\ \A i \in from..to : groups[i] = 0
        runs == { r \in (1..Len(groups)) \X (1..Len(groups)) :
                    /\ ZeroRun(r[1], r[2])
                    /\ \A s \in (1..Len(groups)) \X (1..Len(groups)) :
                          ZeroRun(s[1], s[2]) =>
                              \/ s[2] - s[1] < r[2] - r[1]
                              \/ (s[2] - s[1] = r[2] - r[1] /\ s[1] >= r[1]) }
    IN  IF runs = {} THEN Join(groups)
        ELSE LET r == CHOOSE r \in runs : TRUE
             IN  Join(SubSeq(groups, 1, r[1] - 1)) \o << ":", ":" >>
                   \o Join(SubSeq(groups, r[2] + 1, Len(groups)))

\* the groups of an IPv6 text, a :: filled with zero groups
ParseIpv6(json) ==
    LET text == json.v
        IsList(t) == \/ t = <<>>
                     \/ /\ Len(t) % 2 = 1
                        /\ \A i \in 1..Len(t) :
                             IF i % 2 = 1 THEN \E d \in 1..16 : HexAlphabet[d] = t[i]
                             ELSE t[i] = ":"
        Split(t) == [i \in 1..((Len(t) + 1) \div 2) |->
                        Number(<< t[2 * i - 1] >>, HexAlphabet).value]
        gaps == { p \in 1..(Len(text) - 1) : text[p] = ":" /\ text[p + 1] = ":" }
        left == SubSeq(text, 1, (CHOOSE p \in gaps : TRUE) - 1)
        right == SubSeq(text, (CHOOSE p \in gaps : TRUE) + 2, Len(text))
    IN  IF json.kind # "string" THEN None
        ELSE IF gaps = {}
        THEN IF IsList(text) /\ text # <<>> /\ Len(Split(text)) = IpGroups
             THEN Some(Split(text))
             ELSE None
        ELSE IF /\ Cardinality(gaps) = 1
                /\ IsList(left)
                /\ IsList(right)
                /\ Len(Split(left)) + Len(Split(right)) < IpGroups
        THEN Some(Split(left)
                    \o [i \in 1..(IpGroups - Len(Split(left)) - Len(Split(right))) |-> 0]
                    \o Split(right))
        ELSE None

\* base64 text of a WgKey: six bits a character, = up to a multiple of four
Base64(bytes) ==
    LET fill == (6 - ((8 * Len(bytes)) % 6)) % 6
        chars == (8 * Len(bytes) + fill) \div 6
        RECURSIVE Value(_)
        Value(bs) == IF bs = <<>> THEN 0
                     ELSE 256 * Value(SubSeq(bs, 1, Len(bs) - 1)) + bs[Len(bs)]
        m == Value(bytes) * (2 ^ fill)
    IN  [j \in 1..chars |-> Base64Alphabet[((m \div (64 ^ (chars - j))) % 64) + 1]]
          \o [j \in 1..((4 - (chars % 4)) % 4) |-> "="]

\* the KeyBytes bytes of a base64 text
ParseBase64(json) ==
    LET fill == (6 - ((8 * KeyBytes) % 6)) % 6
        chars == (8 * KeyBytes + fill) \div 6
        m == Number(SubSeq(json.v, 1, chars), Base64Alphabet)
    IN  IF /\ json.kind = "string"
           /\ Len(json.v) = chars + ((4 - (chars % 4)) % 4)
           /\ \A j \in (chars + 1)..Len(json.v) : json.v[j] = "="
           /\ m.some
           /\ m.value % (2 ^ fill) = 0
        THEN Some([i \in 1..KeyBytes |->
                      ((m.value \div (2 ^ fill)) \div (256 ^ (KeyBytes - i))) % 256])
        ELSE None

\* the value of the named field of an object, other fields passed over;
\* a value of kind "none" when the object has no such field
Get(json, name) ==
    LET found == { i \in DOMAIN json.v : json.v[i].name = name }
    IN  IF json.kind # "object" \/ found = {} THEN JValue("none", <<>>)
        ELSE json.v[CHOOSE i \in found : \A j \in found : i <= j].value

\* Identity: mesh_ip, eth_address, wg_public_key in this order
IdentityJson(id) ==
    JValue("object",
           << Field("mesh_ip", JValue("string", Ipv6Text(id.mesh_ip))),
              Field("eth_address", JValue("string", FixedHex(id.eth_address, AddrDigits))),
              Field("wg_public_key", JValue("string", Base64(id.wg_public_key))) >>)

ParseIdentity(json) ==
    LET mesh_ip == ParseIpv6(Get(json, "mesh_ip"))
        eth_address == ParseHex(Get(json, "eth_address"), {AddrDigits})
        wg_public_key == ParseBase64(Get(json, "wg_public_key"))
    IN  IF mesh_ip.some /\ eth_address.some /\ wg_public_key.some
        THEN Some(Identity(mesh_ip.value, eth_address.value, wg_public_key.value))
        ELSE None

PaymentTx(to, from, amount) == [to |-> to, from |-> from, amount |-> amount]

PaymentTxJson(payment) ==
    JValue("object",
           << Field("to", IdentityJson(payment.to)),
              Field("from", IdentityJson(payment.from)),
              Field("amount", JValue("string", MinimalHex(payment.amount))) >>)

ParsePaymentTx(json) ==
    LET to == ParseIdentity(Get(json, "to"))
        from == ParseIdentity(Get(json, "from"))
        amount == ParseHex(Get(json, "amount"), {})
    IN  IF to.some /\ from.some /\ amount.some
        THEN Some(PaymentTx(to.value, from.value, amount.value))
        ELSE None

\* the object of an ExitState, tagged by "state"; a field at its default is
\* written or left out
ExitStateJson(exit_state, defaults) ==
    LET details == JValue("object",
            << Field("exit_price", JValue("number", exit_state.general_details.exit_price)),
               Field("verif_mode", JValue("string", exit_state.general_details.verif_mode)) >>)
    IN  IF exit_state.state = "New"
        THEN JValue("object", << Field("state", JValue("string", << "N", "e", "w" >>)) >>)
        ELSE IF exit_state.state = "GotInfo"
        THEN JValue("object",
                 << Field("state", JValue("string", << "G", "o", "t" >>)),
                    Field("general_details", details),
                    Field("message", JValue("string", exit_state.message)) >>
                 \o (IF exit_state.auto_register \/ defaults
                     THEN << Field("auto_register", JValue("bool", exit_state.auto_register)) >>
                     ELSE <<>>))
        ELSE JValue("object",
                 << Field("state", JValue("string", << "P", "e", "n" >>)),
                    Field("general_details", details),
                    Field("message", JValue("string", exit_state.message)) >>
                 \o (IF exit_state.email_code.some
                     THEN << Field("email_code", JValue("string", exit_state.email_code.value)) >>
                     ELSE IF defaults THEN << Field("email_code", JValue("null", <<>>)) >>
                     ELSE <<>>))

\* ExitState by its "state" field; fields it does not know are ignored, an
\* absent auto_register is false, an absent email_code is None
ParseExitState(json) ==
    LET state == Get(json, "state")
        details == Get(json, "general_details")
        exit_price == Get(details, "exit_price")
        verif_mode == Get(details, "verif_mode")
        message == Get(json, "message")
        auto_register == Get(json, "auto_register")
        email_code == Get(json, "email_code")
        general_details == [exit_price |-> exit_price.v, verif_mode |-> verif_mode.v]
    IN  IF state.kind # "string" THEN None
        ELSE IF state.v = << "N", "e", "w" >> THEN Some([state |-> "New"])
        ELSE IF \/ exit_price.kind # "number"
                \/ verif_mode.kind # "string"
                \/ verif_mode.v \notin { << "O", "f", "f" >>, << "E", "m" >> }
                \/ message.kind # "string"
        THEN None
        ELSE IF state.v = << "G", "o", "t" >> /\ auto_register.kind \in {"bool", "none"}
        THEN Some([state |-> "GotInfo", general_details |-> general_details,
                   message |-> message.v,
                   auto_register |-> auto_register.kind = "bool" /\ auto_register.v])
        ELSE IF state.v = << "P", "e", "n" >> /\ email_code.kind \in {"string", "null", "none"}
        THEN Some([state |-> "Pending", general_details |-> general_details,
                   message |-> message.v,
                   email_code |-> IF email_code.kind = "string" THEN Some(email_code.v)
                                  ELSE None])
        ELSE None

\* the identities the tests make, and others
SerdeIdentities ==
    { Identity(ip, eth, key) : ip \in [1..IpGroups -> {0, 1, 10}],
                               eth \in {0, 1, 171, (16 ^ AddrDigits) - 1},
                               key \in [1..KeyBytes -> {0, 1, 255}] }

ExitStates ==
    LET details == { [exit_price |-> price, verif_mode |-> verif_mode] :
                       price \in {0, 50}, verif_mode \in { << "O", "f", "f" >>, << "E", "m" >> } }
    IN  { [state |-> "New"] }
          \cup { [state |-> "GotInfo", general_details |-> d, message |-> << "o", "k" >>,
                  auto_register |-> a] : d \in details, a \in BOOLEAN }
          \cup { [state |-> "Pending", general_details |-> d, message |-> << "o", "k" >>,
                  email_code |-> c] : d \in details, c \in { None, Some(<< "1", "2" >>) } }

SerdeIdle == [op |-> "idle"]

\* test_serde: to_string, then from_str
SerdeDone(op, value, json, parsed) ==
    /\ serde' = [op |-> op, value |-> value, json |-> json, parsed |-> parsed]
    /\ UNCHANGED <<role, running, last_read_input, last_read_output, last_seen_bytes,
                   debt_keeper, round, hello, tunnel_manager, kernel,
                   settings_default_route, route_call,
                   ledger>>

\* addr_serde, key_serde, sig_serde
EthSerde ==
    /\ role = "serde"
    /\ serde.op = "idle"
    /\ \E width \in {AddrDigits, AddrDigits + 1, AddrDigits + 2} :
       \E n \in {0, 1, 171, (16 ^ width) - 1} :
         LET json == JValue("string", FixedHex(n, width))
         IN  /\ json.kind = "string"
             /\ SerdeDone("eth", n, json, ParseHex(json, {width}))

\* identity_serde
IdentitySerde ==
    /\ role = "serde"
    /\ serde.op = "idle"
    /\ \E id \in SerdeIdentities :
         LET json == IdentityJson(id)
         IN  /\ json.kind = "object"
             /\ SerdeDone("identity", id, json, ParseIdentity(json))

\* payment_serde
PaymentSerde ==
    /\ role = "serde"
    /\ serde.op = "idle"
    /\ \E to \in SerdeIdentities : \E amount \in {0, 1, 16, 255} :
       \E from \in { Identity([i \in 1..IpGroups |-> x], x, [i \in 1..KeyBytes |-> x]) :
                       x \in {0, 1} } :
         LET json == PaymentTxJson(PaymentTx(to, from, amount))
         IN  /\ json.kind = "object"
             /\ SerdeDone("payment", PaymentTx(to, from, amount), json, ParsePaymentTx(json))

\* exit_state_deserialize: an object with or without a field, "aa", that
\* ExitState does not have
ExitStateDeserialize ==
    /\ role = "serde"
    /\ serde.op = "idle"
    /\ \E exit_state \in ExitStates : \E defaults \in BOOLEAN : \E at \in 0..5 :
         LET written == ExitStateJson(exit_state, defaults)
             unknown == Field("aa", JValue("string", << "a", "a" >>))
             json == IF at = 0 THEN written
                     ELSE JValue("object", SubSeq(written.v, 1, at - 1) \o << unknown >>
                                             \o SubSeq(written.v, at, Len(written.v)))
         IN  /\ at <= Len(written.v) + 1
             /\ SerdeDone("exit_state", exit_state, json, ParseExitState(json))

\* the test has ended
SerdeReturned ==
    /\ role = "serde"
    /\ serde.op # "idle"
    /\ serde' = SerdeIdle
    /\ UNCHANGED <<role, running, last_read_input, last_read_output, last_seen_bytes,
                   debt_keeper, round, hello, tunnel_manager, kernel,
                   settings_default_route, route_call,
                   ledger>>

---------------------------------------------------------------------------
(* Specifications *)

Init ==
    /\ role \in {"client", "exit"}
    /\ running = TRUE
    /\ last_read_input = 0
    /\ last_read_output = 0
    /\ last_seen_bytes = EmptyMap
    /\ debt_keeper = <<>>
    /\ round = IF role = "client" THEN ClientIdleRound ELSE ExitIdleRound
    /\ hello = <<>>
    /\ tunnel_manager = <<>>
    /\ kernel = KernelIdle
    /\ settings_default_route = <<>>
    /\ route_call = RouteIdle
    /\ serde = SerdeIdle
    /\ ledger = None

Next ==
    \/ ClientWatch
    \/ ClientRoundDelivered
    \/ ClientRestart
    \/ ExitWatch
    \/ ExitRoundDelivered
    \/ ExitRestart

Spec == Init /\ [][Next]_vars

ClientInit == Init /\ role = "client"

ClientNext == ClientWatch \/ ClientRoundDelivered \/ ClientRestart

ClientSpec == ClientInit /\ [][ClientNext]_vars

ExitInit == Init /\ role = "exit"

ExitNext == ExitWatch \/ ExitRoundDelivered \/ ExitRestart

ExitSpec == ExitInit /\ [][ExitNext]_vars

\* the HTTPClient actor alone: the watchers' state stays as constructed
HelloInit ==
    /\ role = "hello"
    /\ running = TRUE
    /\ last_read_input = 0
    /\ last_read_output = 0
    /\ last_seen_bytes = EmptyMap
    /\ debt_keeper = <<>>
    /\ round = ClientIdleRound
    /\ hello = <<>>
    /\ tunnel_manager = <<>>
    /\ kernel = KernelIdle
    /\ settings_default_route = <<>>
    /\ route_call = RouteIdle
    /\ serde = SerdeIdle
    /\ ledger = None

HelloNext == HelloHandle \/ HelloStreamSettled \/ HelloResponseSettled \/ HelloJsonSettled

HelloSpec == HelloInit /\ [][HelloNext]_vars

\* the executor polls every future whose connect, request or body has
\* settled, and each of these settles
HelloFairSpec ==
    /\ HelloSpec
    /\ WF_vars(HelloStreamSettled)
    /\ WF_vars(HelloResponseSettled)
    /\ WF_vars(HelloJsonSettled)

\* the KernelInterface alone
KernelInit ==
    /\ role = "kernel"
    /\ running = TRUE
    /\ last_read_input = 0
    /\ last_read_output = 0
    /\ last_seen_bytes = EmptyMap
    /\ debt_keeper = <<>>
    /\ round = ClientIdleRound
    /\ hello = <<>>
    /\ tunnel_manager = <<>>
    /\ kernel = KernelIdle
    /\ settings_default_route = <<>>
    /\ route_call = RouteIdle
    /\ serde = SerdeIdle
    /\ ledger = None

KernelNext == KernelGetDefaultRoute \/ KernelReturned

KernelSpec == KernelInit /\ [][KernelNext]_vars

\* the functions of the KernelInterface on the saved default route: the
\* settings start with no saved route, or with one that is not the tunnel's
RouteInit ==
    /\ role = "route"
    /\ running = TRUE
    /\ last_read_input = 0
    /\ last_read_output = 0
    /\ last_seen_bytes = EmptyMap
    /\ debt_keeper = <<>>
    /\ round = ClientIdleRound
    /\ hello = <<>>
    /\ tunnel_manager = <<>>
    /\ kernel = KernelIdle
    /\ settings_default_route \in { <<>>, << DefaultWord, <<"d">> >> }
    /\ route_call = RouteIdle
    /\ serde = SerdeIdle
    /\ ledger = None

RouteNext ==
    \/ RouteSetRoute
    \/ RouteSetDefaultRoute
    \/ RouteUpdateSettingsRoute
    \/ RouteManualPeersRoute
    \/ RouteRestoreDefaultRoute
    \/ RouteReturned

\* the exit watcher over steady rounds, with the ledger kept
SteadyInit ==
    /\ role = "exit"
    /\ running = TRUE
    /\ last_read_input = 0
    /\ last_read_output = 0
    /\ last_seen_bytes = EmptyMap
    /\ debt_keeper = <<>>
    /\ round = ExitIdleRound
    /\ hello = <<>>
    /\ tunnel_manager = <<>>
    /\ kernel = KernelIdle
    /\ settings_default_route = <<>>
    /\ route_call = RouteIdle
    /\ serde = SerdeIdle
    /\ ledger = Some([first |-> None, last |-> None, seen |-> None, total |-> 0,
                      caught_up |-> FALSE])

SteadyNext == ExitSteadyWatch \/ ExitRoundDelivered

SteadySpec == SteadyInit /\ [][SteadyNext]_vars

RouteSpec == RouteInit /\ [][RouteNext]_vars

\* the serde tests of althea_types
SerdeInit ==
    /\ role = "serde"
    /\ running = TRUE
    /\ last_read_input = 0
    /\ last_read_output = 0
    /\ last_seen_bytes = EmptyMap
    /\ debt_keeper = <<>>
    /\ round = ClientIdleRound
    /\ hello = <<>>
    /\ tunnel_manager = <<>>
    /\ kernel = KernelIdle
    /\ settings_default_route = <<>>
    /\ route_call = RouteIdle
    /\ serde = SerdeIdle
    /\ ledger = None

SerdeNext ==
    \/ EthSerde
    \/ IdentitySerde
    \/ PaymentSerde
    \/ ExitStateDeserialize
    \/ SerdeReturned

SerdeSpec == SerdeInit /\ [][SerdeNext]_vars

---------------------------------------------------------------------------
(* Properties.  `round` holds the latest round until its result is        *)
(* delivered; the definitions below read it.                               *)

\* the client round read the counters of a peer
ClientReadCounter ==
    /\ role = "client"
    /\ round.stage \in {"billed", "no_route", "overflow"} \cup ProbeFailures

ClientCounter == round.in.counters[round.in.last_key]

\* the parsed routes hold an installed IPv6 /128 route to exit.mesh_ip
IsExitRoute(route) ==
    /\ route.prefix.family = "V6"
    /\ route.prefix.prefix = 128
    /\ route.installed
    /\ route.prefix.ip = round.in.exit.mesh_ip

ClientHasExitRoute == \E i \in DOMAIN round.in.routes : IsExitRoute(round.in.routes[i])

ClientExitRoute ==
    round.in.routes[CHOOSE i \in DOMAIN round.in.routes : IsExitRoute(round.in.routes[i])]

\* the history the round takes its deltas against
ClientWasReset ==
    \/ round.prev.last_read_input > ClientCounter.download
    \/ round.prev.last_read_output > ClientCounter.upload

ClientBase == IF ClientWasReset THEN ClientHistory(0, 0) ELSE round.prev

\* the exit round ran to its end
ExitBilled == role = "exit" /\ round.stage = "billed"

ExitClientKeys == { round.in.clients[i].wg_public_key : i \in DOMAIN round.in.clients }

ExitSentFrom(id) == { i \in DOMAIN debt_keeper : debt_keeper[i].from = id }

ExitSentFromKey(k) == { i \in DOMAIN debt_keeper : debt_keeper[i].from.wg_public_key = k }

\* the history of key k the round takes its deltas against: the entry before
\* the round, or the seeded one, either axis at 0 when the counter regressed
ExitBase(k) ==
    LET cur == round.in.counters[k]
        old == IF k \in DOMAIN round.prev THEN round.prev[k] ELSE cur
    IN  WgUsage(IF old.download > cur.download THEN 0 ELSE old.download,
                IF old.upload > cur.upload THEN 0 ELSE old.upload)

\* C1: in a client round that reads one peer, finds an installed IPv6 /128
\* route to exit.mesh_ip and whose RTT probe succeeds, exactly one
\* TrafficUpdate{from: exit} is sent, its amount is
\* exit_price * (upload - last_read_output) + (route.price + exit_price) *
\* (download - last_read_input), and the history is the counter afterwards.
C1_ClientAmount ==
    ( /\ ClientReadCounter
      /\ Cardinality(DOMAIN round.in.counters) = 1
      /\ ClientHasExitRoute
      /\ round.stage \notin ProbeFailures )
    => /\ Len(debt_keeper) = 1
       /\ debt_keeper[1].from = round.in.exit
       /\ debt_keeper[1].amount =
            round.in.exit_price * (ClientCounter.upload - ClientBase.last_read_output)
            + (ClientExitRoute.price + round.in.exit_price)
              * (ClientCounter.download - ClientBase.last_read_input)
       /\ last_read_input = ClientCounter.download
       /\ last_read_output = ClientCounter.upload

\* C2: in a successful exit round, the amount sent for every client that has
\* a counter, an identity, a destination price dest and a history entry is
\* -price * (cur.download - history.download)
\* - (dest + price) * (cur.upload - history.upload).
C2_ExitAmount ==
    ExitBilled =>
      \A k \in DOMAIN round.in.counters :
        LET identities == ExitIdentities(round.in.clients)
            destinations == ExitDestinations(round.in.routes, ExitIdFromIp(round.in.clients),
                                             round.in.local_fee)
            cur == round.in.counters[k]
        IN  (k \in DOMAIN identities /\ k \in DOMAIN destinations) =>
              \A i \in ExitSentFrom(identities[k]) :
                debt_keeper[i].amount =
                    0 - round.in.exit_price * (cur.download - ExitBase(k).download)
                    - (destinations[k] + round.in.exit_price)
                      * (cur.upload - ExitBase(k).upload)

\* C3: in the first round in which a key appears in the counters, the debt
\* of that peer is 0 and afterwards last_seen_bytes[key] is the counters read.
C3_ZeroDeltaSeeding ==
    ExitBilled =>
      \A k \in DOMAIN round.in.counters \ DOMAIN round.prev :
        /\ k \in DOMAIN last_seen_bytes
        /\ last_seen_bytes[k] = round.in.counters[k]
        /\ \A id \in DOMAIN round.debts : id.wg_public_key = k => round.debts[id] = 0
        /\ \A i \in ExitSentFromKey(k) : debt_keeper[i].amount = 0

\* a first sighting of a peer with an identity, a route and traffic, and its update
C3_Witness ==
    /\ ExitBilled
    /\ \E k \in DOMAIN round.in.counters \ DOMAIN round.prev :
         /\ round.in.counters[k].download > 0
         /\ round.in.counters[k].upload > 0
         /\ k \in DOMAIN ExitDestinations(round.in.routes, ExitIdFromIp(round.in.clients),
                                          round.in.local_fee)
         /\ ExitSentFromKey(k) # {}

\* C4: when either history value exceeds its counter at the start of a client
\* round, both deltas are the full current counters; no delta is ever
\* negative; and the history is the current counter afterwards.
C4_ClientCounterReset ==
    ClientReadCounter =>
      /\ round.input >= 0
      /\ round.output >= 0
      /\ last_read_input = ClientCounter.download
      /\ last_read_output = ClientCounter.upload
      /\ ClientWasReset =>
           /\ round.input = ClientCounter.download
           /\ round.output = ClientCounter.upload

\* history {1000,50}, counters {100,500}: only the download regressed, the
\* round bills 3*500 + (7+3)*100
C4_Witness ==
    /\ ClientReadCounter
    /\ round.prev = ClientHistory(1000, 50)
    /\ ClientCounter = WgUsage(100, 500)
    /\ round.in.exit_price = 3
    /\ Len(debt_keeper) = 1
    /\ debt_keeper[1].amount = 2500
    /\ last_read_input = 100
    /\ last_read_output = 500

\* C5 as stated: a TrafficUpdate is sent if and only if the routes hold an
\* installed IPv6 /128 route to exit.mesh_ip; with none the round returns ok,
\* sends nothing and commits the history.
C5_SentIffRoute ==
    (ClientReadCounter /\ round.result # "panic") =>
      /\ (debt_keeper # <<>>) <=> ClientHasExitRoute
      /\ ~ClientHasExitRoute =>
           /\ round.result = "ok"
           /\ debt_keeper = <<>>
           /\ last_read_input = ClientCounter.download
           /\ last_read_output = ClientCounter.upload

\* C5 amended: a TrafficUpdate is sent only if the routes hold an installed
\* IPv6 /128 route to exit.mesh_ip, and a round that returns ok with such a
\* route sends exactly one; with none the round returns ok, sends nothing and
\* commits the history.
C5_SentOnlyIfRoute ==
    /\ (role = "client" /\ debt_keeper # <<>>) => ClientReadCounter /\ ClientHasExitRoute
    /\ ClientReadCounter =>
         /\ (ClientHasExitRoute /\ round.result = "ok") => Len(debt_keeper) = 1
         /\ ~ClientHasExitRoute =>
              /\ round.result = "ok"
              /\ debt_keeper = <<>>
              /\ last_read_input = ClientCounter.download
              /\ last_read_output = ClientCounter.upload

\* history {0,0}, counters {900,100}, routes that are to the exit but not
\* billable: nothing is sent and the history becomes {900,100}
C5_Witness ==
    /\ ClientReadCounter
    /\ round.in.routes # <<>>
    /\ \A i \in DOMAIN round.in.routes : round.in.routes[i].prefix.ip = round.in.exit.mesh_ip
    /\ ~ClientHasExitRoute
    /\ round.prev = ClientHistory(0, 0)
    /\ ClientCounter = WgUsage(900, 100)
    /\ debt_keeper = <<>>
    /\ round.result = "ok"
    /\ last_read_input = 900
    /\ last_read_output = 100

\* C6: when read_wg_counters returns an empty map the client round returns an
\* error, sends nothing, and leaves last_read_input and last_read_output.
C6_ClientNoPeer ==
    (role = "client" /\ round.stage = "no_peer") =>
      /\ round.result = "err"
      /\ debt_keeper = <<>>
      /\ last_read_input = round.prev.last_read_input
      /\ last_read_output = round.prev.last_read_output

C6_Witness ==
    /\ role = "client"
    /\ round.stage = "no_peer"
    /\ round.in.counters = EmptyMap
    /\ round.in.routes # <<>>
    /\ last_read_input = 1000
    /\ last_read_output = 500

\* C7: when the RTT probe fails, or no current exit is configured, the client
\* round fails with last_read_input and last_read_output as before the round.
C7_ProbeFailureKeepsHistory ==
    (role = "client" /\ round.stage \in ProbeFailures) =>
      /\ round.result = "err"
      /\ last_read_input = round.prev.last_read_input
      /\ last_read_output = round.prev.last_read_output

\* C8: in both watchers a round in which start_connection, parse_routes or
\* read_wg_counters fails returns the error, sends nothing and leaves the
\* usage history as it was.
C8_RoundAtomicity ==
    round.stage \in {"start_connection_failed", "parse_routes_failed",
                     "read_wg_counters_failed"} =>
      /\ round.result = "err"
      /\ debt_keeper = <<>>
      /\ role = "client" =>
           /\ last_read_input = round.prev.last_read_input
           /\ last_read_output = round.prev.last_read_output
      /\ role = "exit" => last_seen_bytes = round.prev

\* the exit's counter read fails in a round with clients and routes, after a
\* round that left a history
C8_Witness ==
    /\ role = "exit"
    /\ round.stage = "read_wg_counters_failed"
    /\ round.in.clients # <<>>
    /\ round.in.routes # <<>>
    /\ round.prev # EmptyMap
    /\ last_seen_bytes = round.prev

\* C9: a successful exit round sends exactly one TrafficUpdate per distinct
\* wg_public_key of the clients, with amount 0 for a client with no counter,
\* no destination or a first sighting, and none for any other key.
C9_ExitEmissionCount ==
    ExitBilled =>
      /\ \A k \in ExitClientKeys : Cardinality(ExitSentFromKey(k)) = 1
      /\ \A i \in DOMAIN debt_keeper : debt_keeper[i].from.wg_public_key \in ExitClientKeys
      /\ \A i, j \in DOMAIN debt_keeper :
           debt_keeper[i].from = debt_keeper[j].from => i = j
      /\ Len(debt_keeper) = Cardinality(ExitClientKeys)
      /\ \A i \in DOMAIN debt_keeper :
           LET k == debt_keeper[i].from.wg_public_key
           IN  ( \/ k \notin DOMAIN round.in.counters
                 \/ k \notin DOMAIN round.prev
                 \/ k \notin DOMAIN ExitDestinations(round.in.routes,
                                       ExitIdFromIp(round.in.clients), round.in.local_fee) )
               => debt_keeper[i].amount = 0

\* two clients share a key, a counter key belongs to no client: one update
C9_Witness ==
    /\ ExitBilled
    /\ Len(round.in.clients) = 2
    /\ Cardinality(ExitClientKeys) = 1
    /\ DOMAIN round.in.counters = Keys
    /\ Len(debt_keeper) = 1

\* C10: every amount the exit watcher sends is <= 0 and every amount the
\* client watcher sends is >= 0.
C10_SignConvention ==
    \A i \in DOMAIN debt_keeper :
      /\ role = "exit" => debt_keeper[i].amount <= 0
      /\ role = "client" => debt_keeper[i].amount >= 0

\* an exit round bills a peer whose download counter regressed
C10_Witness ==
    /\ ExitBilled
    /\ \E i \in DOMAIN debt_keeper :
         LET k == debt_keeper[i].from.wg_public_key
         IN  /\ debt_keeper[i].amount < 0
             /\ k \in DOMAIN round.prev
             /\ k \in DOMAIN round.in.counters
             /\ round.prev[k].download > round.in.counters[k].download

\* the callbacks invocation i has sent to the TunnelManager
HelloCallbacks(i) == { n \in DOMAIN tunnel_manager : tunnel_manager[n].hello = i }

HelloFailed(i) ==
    "err" \in {hello[i].stream, hello[i].request, hello[i].response, hello[i].val}

\* C11: every Hello invocation that has run to completion, whichever stage
\* failed or succeeded, has sent exactly one message to the TunnelManager, a
\* PortCallback or an IdentityCallback; an invocation still running has sent
\* none.
C11_PortReleaseExactness ==
    role = "hello" =>
      /\ \A i \in DOMAIN hello :
           /\ hello[i].stage = "done" => Cardinality(HelloCallbacks(i)) = 1
           /\ hello[i].stage # "done" => HelloCallbacks(i) = {}
      /\ \A n \in DOMAIN tunnel_manager :
           /\ tunnel_manager[n].hello \in DOMAIN hello
           /\ tunnel_manager[n].message.callback \in {"PortCallback", "IdentityCallback"}

\* two invocations with the same wg_port have completed, one at a request
\* that did not serialize and one with the peer's identity
C11_Witness ==
    /\ role = "hello"
    /\ Len(hello) = 2
    /\ hello[1].msg.my_id.wg_port = hello[2].msg.my_id.wg_port
    /\ hello[1].stage = "done" /\ hello[1].request = "err"
    /\ hello[2].stage = "done" /\ hello[2].val = "ok"
    /\ Len(tunnel_manager) = 2

\* C12: an IdentityCallback is sent only by an invocation whose connect,
\* serialization, send and parse all succeeded, and carries the identity
\* parsed from the response, the peer addressed and Some(wg_port); an
\* invocation in which a stage failed sends PortCallback(wg_port); wg_port
\* is my_id.wg_port of the invocation's own Hello.
C12_CallbackContents ==
    role = "hello" =>
      \A n \in DOMAIN tunnel_manager :
        LET i == tunnel_manager[n].hello
            m == tunnel_manager[n].message
            msg == hello[i].msg
        IN  /\ m.callback = "IdentityCallback" =>
                 /\ hello[i].stream = "ok" /\ hello[i].request = "ok"
                 /\ hello[i].response = "ok" /\ hello[i].val = "ok"
                 /\ hello[i].body.some
                 /\ hello[i].body.value.json = "local_identity"
                 /\ m.local_identity.wg_port = hello[i].body.value.wg_port
                 /\ m.local_identity.global = hello[i].body.value.global
                 /\ m.peer = msg.to
                 /\ m.our_port = Some(msg.my_id.wg_port)
            /\ HelloFailed(i) => m = PortCallback(msg.my_id.wg_port)
            /\ m.callback = "PortCallback" => HelloFailed(i)

\* a peer that reports another wg_port than ours answers one invocation, the
\* body of the answer to another invocation, with another port, is malformed
C12_Witness ==
    /\ role = "hello"
    /\ Len(hello) = 2
    /\ hello[1].msg.my_id.wg_port # hello[2].msg.my_id.wg_port
    /\ hello[1].stage = "done" /\ hello[1].val = "ok"
    /\ hello[1].body.value.wg_port # hello[1].msg.my_id.wg_port
    /\ hello[2].stage = "done" /\ hello[2].val = "err"
    /\ Len(tunnel_manager) = 2
    /\ tunnel_manager[1].hello = 2

\* the destinations of the latest exit round
ExitRoundDestinations ==
    ExitDestinations(round.in.routes, ExitIdFromIp(round.in.clients), round.in.local_fee)

\* key k has an identity among the clients and a destination in the latest round
ExitAccounted(k) ==
    /\ k \in DOMAIN ExitIdentities(round.in.clients)
    /\ k \in DOMAIN ExitRoundDestinations

\* C13: after every successful round of either watcher the history of every
\* peer in that round's counters is at most the counters, on both axes,
\* also for an exit peer with no identity or no route in that round.
C13_MonotoneHistory ==
    /\ (ClientReadCounter /\ round.result = "ok") =>
         /\ last_read_input <= ClientCounter.download
         /\ last_read_output <= ClientCounter.upload
    /\ ExitBilled =>
         \A k \in DOMAIN round.in.counters :
           /\ k \in DOMAIN last_seen_bytes
           /\ last_seen_bytes[k].download <= round.in.counters[k].download
           /\ last_seen_bytes[k].upload <= round.in.counters[k].upload

\* the exit round has run its passes, to the end or to a panic
ExitRanPasses == role = "exit" /\ round.stage \in {"billed", "overflow"}

\* the latest exit round, had the counters not held key k
ExitRoundWithout(k) ==
    LET keys == DOMAIN round.in.counters \ {k}
    IN  ExitWatchResult(round.prev,
          [round.in EXCEPT !.counters = [x \in keys |-> round.in.counters[x]],
                           !.order = CHOOSE o \in Orders(keys) : TRUE])

C15_RestartResetsHistory ==
    [][ (~running /\ running') =>
          /\ last_read_input' = 0
          /\ last_read_output' = 0
          /\ last_seen_bytes' = EmptyMap ]_vars

\* C16: an exit round with no mesh_ip configured returns an error, sends no
\* TrafficUpdate and leaves last_seen_bytes as it was: nothing is seeded.
C16_ExitNoMeshIp ==
    (role = "exit" /\ round.stage # "idle" /\ round.in.babel = "ok"
       /\ ~round.in.mesh_ip_set) =>
      /\ round.stage = "no_mesh_ip"
      /\ round.result = "err"
      /\ debt_keeper = <<>>
      /\ last_seen_bytes = round.prev

\* no mesh_ip in a round with clients, after a round that left a history
C16_Witness ==
    /\ role = "exit"
    /\ round.stage = "no_mesh_ip"
    /\ ~round.in.mesh_ip_set
    /\ Len(round.in.clients) = 2
    /\ DOMAIN round.prev = Keys
    /\ last_seen_bytes = round.prev
    /\ running

\* the amount of the billing formula for key k of the latest exit round, in
\* unbounded integers
ExitExactAmount(k) ==
    IF k \in DOMAIN round.in.counters /\ ExitAccounted(k)
    THEN 0 - round.in.exit_price * (round.in.counters[k].download - ExitBase(k).download)
         - (ExitRoundDestinations[k] + round.in.exit_price)
           * (round.in.counters[k].upload - ExitBase(k).upload)
    ELSE 0

\* C17: no product of a price and a byte delta overflows 64 bits in either
\* watcher (the client's exit_price * output delta, the exit's price *
\* download delta), no round ends in an arithmetic panic, and every amount
\* sent is the exact integer value of the billing formula.
C17_NoWrappingArithmetic ==
    /\ round.stage # "overflow"
    /\ (role = "client" /\ round.stage = "billed") =>
         /\ ~OverflowsU64(round.in.exit_price * round.output)
         /\ \A i \in DOMAIN debt_keeper :
              debt_keeper[i].amount =
                  round.in.exit_price * round.output
                  + (ClientExitRoute.price + round.in.exit_price) * round.input
    /\ ExitBilled =>
         /\ \A k \in DOMAIN round.in.counters :
              ExitAccounted(k) =>
                ~OverflowsU64(round.in.exit_price
                              * (round.in.counters[k].download - ExitBase(k).download))
         /\ \A i \in DOMAIN debt_keeper :
              debt_keeper[i].amount = ExitExactAmount(debt_keeper[i].from.wg_public_key)

\* no product of the latest exit round overflows 64 bits
ExitNoOverflow ==
    \A k \in DOMAIN round.in.counters :
      ~OverflowsU64(round.in.exit_price
                    * (round.in.counters[k].download - ExitBase(k).download))

\* C18: the per-byte price of the exit's input pass (price * download delta)
\* and output pass ((dest + price) * upload delta) is the local fee read from
\* the routing daemon in that round.
C18_ExitPriceIsLocalFee ==
    (ExitBilled /\ ExitNoOverflow) =>
      \A i \in DOMAIN debt_keeper :
        LET k == debt_keeper[i].from.wg_public_key
        IN  (k \in DOMAIN round.in.counters /\ ExitAccounted(k)) =>
              debt_keeper[i].amount =
                  0 - round.in.local_fee
                      * (round.in.counters[k].download - ExitBase(k).download)
                  - (ExitRoundDestinations[k] + round.in.local_fee)
                    * (round.in.counters[k].upload - ExitBase(k).upload)

\* the billable routes of the latest exit round to address ip
ExitRoutesTo(ip) ==
    { i \in DOMAIN round.in.routes :
        /\ round.in.routes[i].prefix.family = "V6"
        /\ round.in.routes[i].prefix.prefix = 128
        /\ round.in.routes[i].installed
        /\ round.in.routes[i].prefix.ip = ip }

\* C19: when the clients hold two identities with the same mesh_ip and
\* different wg_public_keys, each has its own debt entry and its own
\* TrafficUpdate, and each is billed from the counter deltas of its own key
\* at the price of the installed route to the shared mesh_ip.
C19_DistinctAccounts ==
    (ExitBilled /\ ExitNoOverflow) =>
      \A a, b \in DOMAIN round.in.clients :
        LET id == round.in.clients[a]
            k == id.wg_public_key
        IN  ( /\ id.mesh_ip = round.in.clients[b].mesh_ip
              /\ k # round.in.clients[b].wg_public_key ) =>
              /\ id \in DOMAIN round.debts
              /\ Cardinality(ExitSentFrom(id)) = 1
              /\ \A i \in ExitSentFrom(id) :
                   (k \in DOMAIN round.in.counters /\ ExitRoutesTo(id.mesh_ip) # {}) =>
                     LET route == round.in.routes[CHOOSE r \in ExitRoutesTo(id.mesh_ip) : TRUE]
                     IN  debt_keeper[i].amount =
                           0 - round.in.exit_price
                               * (round.in.counters[k].download - ExitBase(k).download)
                           - (route.price + round.in.exit_price)
                             * (round.in.counters[k].upload - ExitBase(k).upload)

\* get_default_route has returned
KernelGotDefaultRoute ==
    role = "kernel" /\ kernel.call = "get_default_route" /\ kernel.outcome = "ok"

\* the positions of text at which a line starts with "default"
DefaultLineStarts(text) ==
    { a \in DOMAIN text :
        /\ a = 1 \/ text[a - 1] = "\n"
        /\ \A j \in DOMAIN DefaultWord :
             a + j - 1 <= Len(text) /\ text[a + j - 1] = DefaultWord[j] }

\* the line of text that starts at position a
LineFrom(text, a) ==
    LET ends == { b \in a..Len(text) : text[b] = "\n" }
    IN  SubSeq(text, a, IF ends = {} THEN Len(text)
                        ELSE (CHOOSE b \in ends : \A c \in ends : b <= c) - 1)

\* the n-th smallest element of the set S of numbers
Nth(S, n) == CHOOSE i \in S : Cardinality({ j \in S : j <= i }) = n

\* tokens are the runs of line between whitespace, in order
IsTokensOf(tokens, line) ==
    LET starts == { i \in DOMAIN line :
                      line[i] # " " /\ (i = 1 \/ line[i - 1] = " ") }
        stops == { i \in DOMAIN line :
                     line[i] # " " /\ (i = Len(line) \/ line[i + 1] = " ") }
    IN  /\ Len(tokens) = Cardinality(starts)
        /\ \A n \in DOMAIN tokens :
             tokens[n] = SubSeq(line, Nth(starts, n), Nth(stops, n))

\* C20: get_default_route returns the whitespace-separated tokens of the
\* first line of the output that starts with "default", whatever the other
\* lines, later default lines and repeated spaces, and None when no line
\* starts with "default".
C20_GetDefaultRoute ==
    KernelGotDefaultRoute =>
      LET text == kernel.output.stdout
          found == DefaultLineStarts(text)
      IN  IF found = {} THEN kernel.result = None
          ELSE /\ kernel.result.some
               /\ IsTokensOf(kernel.result.value,
                             LineFrom(text, CHOOSE a \in found : \A b \in found : a <= b))

\* "dff\ndf": the first default line is returned, the later one is not
C20_Witness ==
    /\ KernelGotDefaultRoute
    /\ kernel.output.stdout = <<"d", "f", "f", "\n", "d", "f">>
    /\ kernel.result = Some(<< <<"d", "f", "f">> >>)

---------------------------------------------------------------------------
(* The saved default route *)

\* the command `ip route add <first> <every token of route after the first>`
IpRouteAdd(first, route) ==
    [program |-> "ip",
     args |-> << Arg("route"), Arg("add"), first >> \o [i \in 1..(Len(route) - 1) |-> route[i + 1]]]

RouteDid(call) == role = "route" /\ route_call.call = call

HostHasTunnelRoute ==
    route_call.host.result.some /\ Contains(route_call.host.result.value, WgExitToken)

HostHasNoRoute == route_call.host.outcome = "ok" /\ ~route_call.host.result.some

HostHasOwnRoute ==
    route_call.host.result.some /\ ~Contains(route_call.host.result.value, WgExitToken)

\* C21: set_route(to, route) runs exactly one command, ip route add <to>
\* followed by the tokens of route after the first, in order, and
\* set_default_route(route) runs exactly one command, ip route add default
\* followed by the tokens of route after the first, for any non-empty route.
C21_RouteAddCommands ==
    /\ (RouteDid("set_route") /\ route_call.route # <<>>)
         => route_call.commands = << IpRouteAdd(Arg(route_call.to), route_call.route) >>
    /\ (RouteDid("set_default_route") /\ route_call.route # <<>>)
         => route_call.commands = << IpRouteAdd(Arg("default"), route_call.route) >>

\* C21 witness: set_route has run with a route of three tokens
C21_Witness ==
    /\ RouteDid("set_route")
    /\ Len(route_call.route) = 3
    /\ route_call.route[2] # route_call.route[3]
    /\ route_call.outcome = "ok"

\* C23: the saved default route never contains the token wg_exit, whatever
\* the calls and the host's default routes; update_settings_route leaves the
\* saved route as it was when the host's default route contains wg_exit or
\* when there is none.
C23_SavedRouteIsNotTunnel ==
    /\ role = "route" => ~Contains(settings_default_route, WgExitToken)
    /\ (RouteDid("update_settings_route") /\ (HostHasTunnelRoute \/ HostHasNoRoute))
         => settings_default_route = route_call.before

\* C23 witness: update_settings_route met a tunnel route with a route saved
C23_Witness ==
    /\ RouteDid("update_settings_route")
    /\ HostHasTunnelRoute
    /\ route_call.before # <<>>
    /\ route_call.outcome = "ok"

\* C24: restore_default_route issues ip route add default with the saved
\* tokens after the first and keeps the saved route when the host's default
\* route contains wg_exit or is absent; it issues no command and saves the
\* host's route when that route exists without wg_exit.
C24_RestoreDefaultRoute ==
    RouteDid("restore_default_route") =>
        /\ (HostHasTunnelRoute \/ HostHasNoRoute) =>
              /\ route_call.commands = << IpRouteAdd(Arg("default"), route_call.before) >>
              /\ settings_default_route = route_call.before
        /\ HostHasOwnRoute =>
              /\ route_call.commands = <<>>
              /\ settings_default_route = route_call.host.result.value

---------------------------------------------------------------------------
(* The JSON form of the types *)

\* C22: reading back the JSON written for a well-formed Identity, PaymentTx,
\* EthAddress, signature or key gives a value equal to the original, and
\* reading an ExitState gives the state whatever unknown field the object
\* also holds.
C22_IdentityRoundTrip ==
    (role = "serde" /\ serde.op # "idle") => serde.parsed = Some(serde.value)

\* C22 witness: an Identity whose address is shortened with :: and whose
\* eth_address needs its leading zero has been written and read back
C22_Witness ==
    /\ role = "serde"
    /\ serde.op = "identity"
    /\ serde.value.mesh_ip[1] = 0
    /\ serde.value.mesh_ip[2] = 0
    /\ serde.value.mesh_ip[IpGroups] = 10
    /\ serde.value.eth_address = 1
    /\ serde.parsed.some

---------------------------------------------------------------------------
(* The exit's history across rounds *)

\* the update sent for key k in the latest exit round
ExitAmountOf(k) ==
    debt_keeper[CHOOSE i \in DOMAIN debt_keeper :
                  debt_keeper[i].from = ExitIdentities(round.in.clients)[k]].amount

\* key k is billed against an older history entry in the latest exit round
ExitBilledAgain(k) ==
    /\ k \in DOMAIN round.in.counters
    /\ k \in DOMAIN round.prev
    /\ ExitAccounted(k)

\* C25: the exit resets each axis on its own: when only the download counter
\* of a peer went back, the download delta is the whole counter and the
\* upload delta is cur.upload - history.upload, and the other way round; the
\* amount of a peer is decided by its own counters and history, whatever the
\* other peers' counters did.
C25_ExitPerAxisReset ==
    (ExitBilled /\ ExitNoOverflow) =>
      \A k \in DOMAIN round.in.counters :
        ExitBilledAgain(k) =>
          LET cur == round.in.counters[k]
              old == round.prev[k]
              price == round.in.exit_price
              dest == ExitRoundDestinations[k]
              download == IF old.download > cur.download THEN cur.download
                          ELSE cur.download - old.download
              upload == IF old.upload > cur.upload THEN cur.upload
                        ELSE cur.upload - old.upload
          IN  /\ ExitAmountOf(k) = 0 - price * download - (dest + price) * upload
              /\ last_seen_bytes[k] = cur

\* C25 witness: K1's download went back from 500 to 200 while its upload
\* went on from 100 to 300, next to K2 whose counters did not go back
C25_Witness ==
    /\ ExitBilled
    /\ ExitNoOverflow
    /\ DOMAIN round.in.counters = Keys
    /\ ExitBilledAgain("K1")
    /\ ExitBilledAgain("K2")
    /\ round.prev["K1"] = WgUsage(500, 100)
    /\ round.in.counters["K1"] = WgUsage(200, 300)
    /\ round.prev["K2"].download <= round.in.counters["K2"].download
    /\ round.prev["K2"].upload <= round.in.counters["K2"].upload
    /\ ExitAmountOf("K1") < 0

\* C28: while the exit watcher runs, no step removes a key from
\* last_seen_bytes; a key is added only by a round whose counters hold it;
\* and once a round has seeded, every key of its counters has an entry, so
\* no accounting arm meets a key with identity and destination and no history.
C28_ExitHistoryOnlyGrows ==
    [][ (role = "exit" /\ running) =>
          /\ DOMAIN last_seen_bytes \subseteq DOMAIN last_seen_bytes'
          /\ DOMAIN last_seen_bytes' # DOMAIN last_seen_bytes =>
               /\ round'.stage \in {"billed", "overflow"}
               /\ (DOMAIN last_seen_bytes' \ DOMAIN last_seen_bytes)
                    \subseteq DOMAIN round'.in.counters
          /\ round'.stage \in {"billed", "overflow"} =>
               DOMAIN round'.in.counters \subseteq DOMAIN last_seen_bytes' ]_vars

\* C28 witness: a round has seeded K2 and kept the entry of K1, which its
\* counters do not hold
C28_Witness ==
    /\ ExitBilled
    /\ DOMAIN round.prev = {"K1"}
    /\ DOMAIN round.in.counters = {"K2"}
    /\ DOMAIN last_seen_bytes = Keys
    /\ last_seen_bytes["K1"] = round.prev["K1"]
    /\ ExitAccounted("K2")

\* C29: an exit round whose get_local_fee call fails is aborted with an
\* error result, not a panic of the actor; it sends no TrafficUpdate and
\* leaves last_seen_bytes as it was.
C29_LocalFeeFailure ==
    (role = "exit" /\ round.stage # "idle" /\ round.in.babel = "ok"
       /\ round.in.mesh_ip_set /\ ~round.in.local_fee_ok) =>
      /\ round.result = "err"
      /\ running
      /\ debt_keeper = <<>>
      /\ last_seen_bytes = round.prev

---------------------------------------------------------------------------
(* The client's unbilled bytes *)

---------------------------------------------------------------------------
(* The exit's bill across rounds *)

\* C26: over successful exit rounds at one price in which the counters of a
\* peer never go back, the amounts sent for it add up to the bill for the
\* bytes between its counters at the first sighting and its counters at the
\* latest round that had its identity and its route, each axis at its rate:
\* bytes counted in a round without identity or route are billed by the next
\* round that has both, and no byte is billed twice.
C26_ExitBillsEveryByteOnce ==
    (role = "exit" /\ ledger.some /\ ledger.value.first.some) =>
      LET l == ledger.value
          price == 1
          dest == 7
      IN  /\ l.total = 0 - price * (l.last.value.download - l.first.value.download)
                         - (dest + price) * (l.last.value.upload - l.first.value.upload)
          /\ last_seen_bytes["K1"] = l.last.value

\* C26 witness: K1 was first seen at {200,100}; a round in which it had no
\* route counted more bytes; the latest round, with identity and route at
\* {700,400}, billed them: 500 + 8 * 300 in all
C26_Witness ==
    /\ ExitBilled
    /\ ledger.some
    /\ ledger.value.caught_up
    /\ ledger.value.first = Some(WgUsage(200, 100))
    /\ ledger.value.last = Some(WgUsage(700, 400))
    /\ ledger.value.total = 0 - 2900
    /\ round.prev["K1"] = WgUsage(200, 100)

---------------------------------------------------------------------------
(* The Hello handler's progress *)

\* invocation i has ended: its future has resolved to Ok(()) and the
\* TunnelManager has its one callback
HelloResolved(i) ==
    /\ i \in DOMAIN hello
    /\ hello[i].stage = "done"
    /\ hello[i].result = "ok"
    /\ Cardinality(HelloCallbacks(i)) = 1

\* a stage of invocation i that failed ended it: the callback is sent, the
\* future is Ok(()) and no later stage was started
HelloFailureEnds(i) ==
    LET f == hello[i]
    IN  /\ f.stream = "err" => f.request = "pending"
        /\ (f.stream = "err" \/ f.request = "err") => f.response = "pending"
        /\ (f.stream = "err" \/ f.request = "err" \/ f.response = "err") => f.val = "pending"
        /\ (f.stream = "err" \/ f.request = "err" \/ f.response = "err" \/ f.val = "err")
             => /\ HelloResolved(i)
                /\ \A n \in HelloCallbacks(i) :
                     tunnel_manager[n].message = PortCallback(f.msg.my_id.wg_port)

\* C30: when every stage that is started completes, with success or with
\* failure, every Hello invocation comes to send its callback to the
\* TunnelManager and its future to resolve to Ok(()), also when a stage
\* failed; a failed stage sends the callback without any later stage started.
C30_HelloAlwaysCallsBack ==
    /\ [](role = "hello" => \A i \in DOMAIN hello : HelloFailureEnds(i))
    /\ \A i \in 1..MaxHellos :
         (role = "hello" /\ i \in DOMAIN hello) ~> HelloResolved(i)

\* C30 witness: one invocation ended when its request failed, the other
\* with the peer's identity
C30_Witness ==
    /\ role = "hello"
    /\ Len(hello) = 2
    /\ hello[1].response = "err"
    /\ hello[1].val = "pending"
    /\ HelloResolved(1)
    /\ hello[2].val = "ok"
    /\ HelloResolved(2)
    /\ tunnel_manager[2].message.callback = "IdentityCallback"

====
